---------------------------- MODULE Spec2Model ----------------------------
(***************************************************************************)
(* Response-streaming bridge of agent-rina: the dispatcher that walks the  *)
(* agent's event stream (handleQuery in src/lib/bot/agent-runtime.ts,      *)
(* streamToChat / bufferToChat in src/lib/rina/agent.ts), the relay        *)
(* between pushed text fragments and the lazy sequence handed to           *)
(* thread.post, postWithRetry, isRetryableNetworkError and splitLongText.  *)
(*                                                                         *)
(* Texts are sequences of one-character strings.  A handler is one action  *)
(* up to its first await; every await is a position of pc at which the     *)
(* platform's consumer and the network may take steps.                     *)
(***************************************************************************)
EXTENDS Integers, Sequences, FiniteSets, TLC

\* ------------------------------------------------------------------ bounds

\* Events one dispatcher run consumes on a live-streaming platform before
\* the stream must end or fail.
MaxEvents == 3

\* The same on a buffering platform, where no consumer of a relay takes
\* steps between the events: a segment of two deltas closed by TextEnd is
\* within reach.
MaxBufferedEvents == 4

\* Failed thread.post attempts (static or relay) in one dispatcher run.
MaxFailures == 1

\* Stands for TELEGRAM_MAX_LENGTH (4000 in the source), scaled down so that
\* texts longer than the limit are within reach of the model's fragments.
TELEGRAM_MAX_LENGTH == 4

\* ------------------------------------------------------------- constants

RETRY_DELAYS_MS == <<400, 1200, 2500>>

\* Tool names the model's ToolInvocationStart events carry, and the part of
\* the static status mapping that covers them ("Read" has no entry).
ToolNames == {"WebSearch", "Read"}

TOOL_STATUS == [n \in {"WebSearch"} |-> "Searching the web..."]

\* ----------------------------------------------------------------- texts

Spaces == {" ", "\n"}

IsBlank(s) == \A i \in 1..Len(s) : s[i] \in Spaces

\* String.prototype.slice(from, to) with 0-based offsets, 0 <= from, to.
Slice(s, from, to) ==
  LET t == IF to > Len(s) THEN Len(s) ELSE to
  IN  IF from >= t THEN <<>> ELSE SubSeq(s, from + 1, t)

RECURSIVE trimEnd(_)
trimEnd(s) ==
  IF s # <<>> /\ s[Len(s)] \in Spaces THEN trimEnd(SubSeq(s, 1, Len(s) - 1))
  ELSE s

RECURSIVE trimStart(_)
trimStart(s) ==
  IF s # <<>> /\ s[1] \in Spaces THEN trimStart(Tail(s)) ELSE s

trim(s) == trimEnd(trimStart(s))

\* String.prototype.lastIndexOf: the largest 0-based offset at which pat
\* occurs in s, -1 when it does not occur.
lastIndexOf(s, pat) ==
  LET hits == {i \in 0..(Len(s) - Len(pat)) :
                 SubSeq(s, i + 1, i + Len(pat)) = pat}
  IN  IF hits = {} THEN -1 ELSE CHOOSE i \in hits : \A j \in hits : j <= i

\* String.prototype.includes.
includes(s, pat) == lastIndexOf(s, pat) >= 0

splitOffsetOneMore(slice) ==
  LET para == lastIndexOf(slice, <<"\n", "\n">>)
      line == IF 2 * para < TELEGRAM_MAX_LENGTH
              THEN lastIndexOf(slice, <<"\n">>) ELSE para
  IN  IF 2 * line < TELEGRAM_MAX_LENGTH THEN TELEGRAM_MAX_LENGTH + 1 ELSE line

\* The midpoint tests left out: the last paragraph break wins wherever it
\* is, then the last line break.
splitOffsetAnyBreak(slice) ==
  LET para == lastIndexOf(slice, <<"\n", "\n">>)
      line == IF para < 0 THEN lastIndexOf(slice, <<"\n">>) ELSE para
  IN  IF line < 0 THEN TELEGRAM_MAX_LENGTH ELSE line

\* The split offset chosen inside the leading slice.  The source compares
\* with TELEGRAM_MAX_LENGTH / 2 as a real number: splitAt < max / 2 is
\* 2 * splitAt < max.
splitOffset(slice) ==
  LET para == lastIndexOf(slice, <<"\n", "\n">>)
      line == IF 2 * para < TELEGRAM_MAX_LENGTH
              THEN lastIndexOf(slice, <<"\n">>) ELSE para
  IN  IF 2 * line < TELEGRAM_MAX_LENGTH THEN TELEGRAM_MAX_LENGTH ELSE line

RECURSIVE splitLoopSkipsOne(_, _)
splitLoopSkipsOne(remaining, out) ==
  IF Len(remaining) > TELEGRAM_MAX_LENGTH
  THEN LET slice   == Slice(remaining, 0, TELEGRAM_MAX_LENGTH)
           splitAt == splitOffset(slice)
       IN  splitLoopSkipsOne(
             trimStart(Slice(remaining, splitAt + 1, Len(remaining))),
             Append(out, trimEnd(Slice(remaining, 0, splitAt))))
  ELSE IF Len(trim(remaining)) > 0 THEN Append(out, remaining) ELSE out

RECURSIVE splitLoop(_, _)
splitLoop(remaining, out) ==
  IF Len(remaining) > TELEGRAM_MAX_LENGTH
  THEN LET slice   == Slice(remaining, 0, TELEGRAM_MAX_LENGTH)
           splitAt == splitOffset(slice)
       IN  splitLoop(trimStart(Slice(remaining, splitAt, Len(remaining))),
                     Append(out, trimEnd(Slice(remaining, 0, splitAt))))
  ELSE IF Len(trim(remaining)) > 0 THEN Append(out, remaining) ELSE out

splitLongTextTrims(text) ==
  IF Len(text) <= TELEGRAM_MAX_LENGTH THEN <<trim(text)>>
  ELSE splitLoop(text, <<>>)

splitLongText(text) ==
  IF Len(text) <= TELEGRAM_MAX_LENGTH THEN <<text>> ELSE splitLoop(text, <<>>)

IsPrefix(s, t) == Len(s) <= Len(t) /\ SubSeq(t, 1, Len(s)) = s

Last(s) == s[Len(s)]

\* ---------------------------------------------------------------- errors

UpperCase == <<"A", "B", "C", "D", "E", "F", "G", "H", "I", "J", "K", "L", "M",
               "N", "O", "P", "Q", "R", "S", "T", "U", "V", "W", "X", "Y", "Z">>

LowerCase == <<"a", "b", "c", "d", "e", "f", "g", "h", "i", "j", "k", "l", "m",
               "n", "o", "p", "q", "r", "s", "t", "u", "v", "w", "x", "y", "z">>

toLowerCaseChar(c) ==
  IF \E i \in 1..26 : UpperCase[i] = c
  THEN LowerCase[CHOOSE i \in 1..26 : UpperCase[i] = c]
  ELSE c

toLowerCase(s) == [i \in 1..Len(s) |-> toLowerCaseChar(s[i])]

\* Error codes a thrown value may carry ("" stands for an absent code).
Codes == {"", "NETWORK_ERROR", "UND_ERR_CONNECT_TIMEOUT", "ECONNRESET"}

MsgNetworkError ==
  <<"N", "e", "t", "w", "o", "r", "k", " ", "E", "r", "r", "o", "r">>

MsgConnectTimeout ==
  <<"C", "o", "n", "n", "e", "c", "t", " ", "T", "i", "m", "e", "o", "u", "t",
    " ", "E", "r", "r", "o", "r">>

MsgRequestTimeout ==
  <<"r", "e", "q", "u", "e", "s", "t", " ", "t", "i", "m", "e", "o", "u", "t">>

MsgFetchFailed == <<"f", "e", "t", "c", "h", " ", "f", "a", "i", "l", "e", "d">>

Messages == {MsgNetworkError, MsgConnectTimeout, MsgRequestTimeout, MsgFetchFailed}

\* A thrown value: isError is `error instanceof Error`; code, causeCode and
\* nestedCode are error.code, error.cause?.code and error.originalError?.code.
Errors ==
  [isError : BOOLEAN, code : Codes,
   causeCode : {"", "UND_ERR_CONNECT_TIMEOUT", "ECONNRESET"},
   nestedCode : {"", "UND_ERR_CONNECT_TIMEOUT"},
   message : Messages]

NoError ==
  [isError |-> FALSE, code |-> "", causeCode |-> "", nestedCode |-> "",
   message |-> MsgFetchFailed]

\* The thrown values a dispatcher run draws its failures from: one that
\* isRetryableNetworkError accepts and one that it rejects.
DispatchErrors ==
  { [isError |-> TRUE, code |-> "", causeCode |-> "UND_ERR_CONNECT_TIMEOUT",
     nestedCode |-> "", message |-> MsgFetchFailed],
    [isError |-> TRUE, code |-> "", causeCode |-> "", nestedCode |-> "",
     message |-> MsgFetchFailed] }

isRetryableNetworkError(error) ==
  /\ error.isError
  /\ LET message == toLowerCase(error.message)
     IN  \/ error.code = "NETWORK_ERROR"
         \/ error.causeCode = "UND_ERR_CONNECT_TIMEOUT"
         \/ error.nestedCode = "UND_ERR_CONNECT_TIMEOUT"
         \/ includes(message,
                     <<"n", "e", "t", "w", "o", "r", "k", " ", "e", "r", "r", "o", "r">>)
         \/ includes(message,
                     <<"c", "o", "n", "n", "e", "c", "t", " ", "t", "i", "m", "e", "o", "u", "t">>)

\* ----------------------------------------------------------------- state

\* Text fragments a TextDelta may carry.
Fragments ==
  { <<"a", "b", "\n">>, <<"\n", "\n">>, <<"a", "b", "\n", "c", "d">>,
    <<"u">> }

VARIABLES
  live,              \* streamText / shouldStream: the adapter is not telegram
  variant,           \* "bot": agent-runtime.ts handleQuery; "rina": rina/agent.ts
  pc,                \* the dispatcher's position: "loop", "close", "closeEnd",
                     \* "post", "returned", "failed"
  nEvents,           \* events consumed so far (the end of the stream included)
  inTextBlock,
  currentTextBlock,
  state,             \* the relay: [chunks, done, resolve]; resolve is the post
                     \* whose consumer's resolver the slot holds, 0 for null
  currentPost,       \* index in relays of the awaited relay post, 0 for null
  relays,            \* every thread.post(textStream()), with its consumer
  calls,             \* every postWithRetry call
  sendQ,             \* payloads the running handler has still to post
  cont,              \* what the handler does after its last post
  attempt,           \* postWithRetry's attempt
  pwr,               \* postWithRetry's position: "idle", "inflight", "sleeping"
  lastError,         \* the value the last failed thread.post threw
  failures,          \* failed thread.post attempts so far
  thrown,            \* what left the dispatcher as an exception, and from where
  segs,              \* history: the segments the stream opened
  openSeg,           \* history: index in segs of the open segment, 0 for none
  upload,            \* uploadImageLinksFromResponse: [i, count, posts], the
                     \* index of the url at hand, uploadedCount, and the
                     \* posts it made
  handler,           \* "first": handleFirstMessage; "subscribed":
                     \* handleSubscribedMessage; "none" outside a turn
  inbound,           \* the inbound message: [isMe, allowed, trigger]
  tpc,               \* the turn handler's position
  phase,             \* "plain": no resume hint; "resumed": inside the try of
                     \* runAssistantWithResumeFallback; "fresh": its retry
  stored,            \* the thread's stored sdkSessionId, "" for none
  hint,              \* opts.resume of the current run, "" for none
  sessionId,         \* handleQuery's sessionId, "" for undefined
  success,           \* the handler's success flag
  caught,            \* the error the last catch block received
  tfailures,         \* failed operations in this turn so far
  runs,              \* history: every call of handleQuery
  effects,           \* history: the handler's calls on the thread, in order
  allMessages,       \* thread.allMessages: the thread's stored messages
  currentMessageId,  \* the id of the triggering message
  hpc,               \* convertThreadHistory's position: "collect", "media",
                     \* "returned", "failed"; "idle" outside a call
  cursor,            \* messages (then history entries) iterated so far
  history,           \* convertThreadHistory's history
  merged,            \* convertThreadHistory's merged
  queryMessages,     \* handleQuery's messages, <<>> before it is built
  splitInput,        \* the text splitLongText is called with
  splitOutput,       \* what splitLongText returned, <<>> before the call
  spc,               \* splitLongText's position when it is modelled step by
                     \* step: "call", "start", "loop", "returned"; "idle"
                     \* otherwise
  splitRemaining,    \* splitLongText's remaining
  lastSplitAt,       \* splitAt of the last loop iteration, -1 before it
  access,            \* what isAccessAllowed reads of the thread and message:
                     \* [adapterName, userId, channelId]
  allowlists,        \* the six allowlists parsed from the environment
  seenGuids,         \* the process-wide Set of seen guids, in insertion order
  dpc,               \* the runDigestCycle calls in flight: how many wait
                     \* for the feeds (fetching) and how many for the
                     \* curation and the post (curating)
  evicted,           \* history: the guids the last cycle deleted, in order
  promptMessage,     \* the message runAssistant builds the prompt of
  promptResult,      \* what buildPromptFromMessage returned
  ppc,               \* runAssistant's position before handleQuery: "build",
                     \* "post", "query", "failed"; "idle" otherwise
  promptPosts,       \* history: the warning notices runAssistant posted
  racePc,            \* two concurrent runs: the position of each
  raceHint,          \* two concurrent runs: the resume hint of each
  raceSession,       \* two concurrent runs: the session id of each
  raceWrites         \* history: the writes of the stored state, in order

vars ==
  <<live, variant, pc, nEvents, inTextBlock, currentTextBlock, state,
    currentPost, relays, calls, sendQ, cont, attempt, pwr, lastError,
    failures, thrown, segs, openSeg, upload, handler, inbound, tpc, phase, stored,
    hint, sessionId, success, caught, tfailures, runs, effects,
    allMessages, currentMessageId, hpc, cursor, history, merged,
    queryMessages, splitInput,
    splitOutput, spc, splitRemaining, lastSplitAt, access, allowlists,
    seenGuids, dpc, evicted, promptMessage, promptResult, ppc, promptPosts,
    racePc, raceHint, raceSession, raceWrites>>

accessVars == <<access, allowlists>>

turnVars ==
  <<handler, inbound, tpc, phase, stored, hint, sessionId, success, caught,
    tfailures, runs, effects, accessVars>>

assemblyVars ==
  <<allMessages, currentMessageId, hpc, cursor, history, merged,
    queryMessages>>

splitVars == <<splitInput, splitOutput, spc, splitRemaining, lastSplitAt>>

\* splitLongText is not modelled step by step.
NoSplitLoop == spc = "idle" /\ splitRemaining = <<>> /\ lastSplitAt = -1

digestVars == <<seenGuids, dpc, evicted>>

\* No digest cycle has run.
NoDigest ==
  /\ seenGuids = <<>>
  /\ dpc = [fetching |-> 0, curating |-> 0]
  /\ evicted = <<>>

promptVars == <<promptMessage, promptResult, ppc, promptPosts>>

\* runAssistant is not modelled up to its call of handleQuery.
NoPrompt ==
  /\ promptMessage = [text |-> <<>>, attachments |-> <<>>]
  /\ promptResult = [content |-> <<>>, warnings |-> <<>>]
  /\ ppc = "idle"
  /\ promptPosts = <<>>

raceVars == <<racePc, raceHint, raceSession, raceWrites>>

\* The two runs of a thread.
Runs == {1, 2}

\* No two runs are modelled side by side.
NoRace ==
  /\ racePc = [r \in Runs |-> "idle"]
  /\ raceHint = [r \in Runs |-> ""]
  /\ raceSession = [r \in Runs |-> ""]
  /\ raceWrites = <<>>

\* What is modelled on its own, outside the turn handler.
pureVars == <<assemblyVars, splitVars, digestVars, promptVars, raceVars>>

\* thrown is constant until the dispatcher fails: it travels with the
\* configuration in the frame conditions.
config == <<live, variant, thrown, upload, turnVars, pureVars>>

\* The access check is not modelled: the message's inbound.allowed stands
\* for its result.
NoAccess ==
  /\ access = [adapterName |-> "none", userId |-> "", channelId |-> ""]
  /\ allowlists = [userIds |-> {}, chatIds |-> {}, userIdsSlack |-> {},
                   userIdsTelegram |-> {}, chatIdsSlack |-> {},
                   chatIdsTelegram |-> {}]

\* No turn handler is running (the dispatcher is modelled on its own).
NoTurn ==
  /\ NoAccess
  /\ handler = "none"
  /\ inbound = [isMe |-> FALSE, allowed |-> TRUE, trigger |-> FALSE]
  /\ tpc = "idle"
  /\ phase = "plain"
  /\ stored = ""
  /\ hint = ""
  /\ sessionId = ""
  /\ success = FALSE
  /\ caught = [isError |-> FALSE, message |-> MsgFetchFailed]
  /\ tfailures = 0
  /\ runs = <<>>
  /\ effects = <<>>

\* convertThreadHistory is not running.
NoAssembly ==
  /\ allMessages = <<>>
  /\ currentMessageId = 0
  /\ hpc = "idle"
  /\ cursor = 0
  /\ history = <<>>
  /\ merged = <<>>
  /\ queryMessages = <<>>

\* splitLongText is modelled inside the dispatcher only.
NoSplit == splitInput = <<>> /\ splitOutput = <<>> /\ NoSplitLoop

NotThrown == [src |-> "none", error |-> NoError]

relayVars == <<state, currentPost, relays>>

retryVars == <<calls, sendQ, cont, attempt, pwr, lastError, failures>>

\* The number of thread.post operations begun so far, retries not counted.
Begun == Len(relays) + Len(calls)

EmptyRelay == [chunks |-> <<>>, done |-> FALSE, resolve |-> 0]

\* The events the run at hand may consume.
EventBound == IF live THEN MaxEvents ELSE MaxBufferedEvents

\* uploadImageLinksFromResponse has posted nothing.
NoUpload == [i |-> 1, count |-> 0, posts |-> <<>>]

InitDispatcher ==
  /\ pc = "loop"
  /\ nEvents = 0
  /\ inTextBlock = FALSE
  /\ currentTextBlock = <<>>
  /\ state = EmptyRelay
  /\ currentPost = 0
  /\ relays = <<>>
  /\ calls = <<>>
  /\ sendQ = <<>>
  /\ cont = "loop"
  /\ attempt = 0
  /\ pwr = "idle"
  /\ lastError = NoError
  /\ failures = 0
  /\ thrown = NotThrown
  /\ segs = <<>>
  /\ openSeg = 0
  /\ upload = NoUpload

Init ==
  /\ live \in BOOLEAN
  /\ variant \in {"bot", "rina"}
  /\ InitDispatcher
  /\ NoDigest
  /\ NoPrompt
  /\ NoRace
  /\ NoTurn
  /\ NoAssembly
  /\ NoSplit

\* ----------------------------------------------------------------- relay

\* chunks.push(text)
pushChunk(chunks, text) == Append(chunks, text)

\* state.resolve?.() left out: nobody is woken.
wakeNobody(rs, slot) == rs

\* state.resolve?.(): the consumer waiting on the promise whose resolver the
\* slot holds becomes runnable; a null slot or the resolver of a promise that
\* is already resolved does nothing.
wake(rs, slot) ==
  IF slot # 0 /\ rs[slot].cons = "suspended"
  THEN [rs EXCEPT ![slot].cons = "woken"]
  ELSE rs

\* One run of textStream()'s body for the consumer of post p, from a call of
\* next() or from the resolved wait up to the next yield, return or wait.
\* The sequence of a rejected post still runs when its wait is resolved: the
\* chunk it shifts is yielded to nobody, and it is never asked again.
textStream(p) ==
  IF state.chunks # <<>>
  THEN /\ relays' = IF relays[p].status = "err"
                    THEN [relays EXCEPT ![p].cons = "dead"]
                    ELSE [relays EXCEPT ![p].cons = "idle",
                                        ![p].recv = Append(@, Head(state.chunks))]
       /\ state' = [state EXCEPT !.chunks = Tail(@)]
  ELSE IF state.done
  THEN /\ relays' = IF relays[p].status = "err"
                    THEN [relays EXCEPT ![p].cons = "finished"]
                    ELSE [relays EXCEPT ![p].cons = "finished",
                                        ![p].status = "ok"]
       /\ state' = state
  ELSE /\ relays' = [relays EXCEPT ![p].cons = "suspended"]
       /\ state' = [state EXCEPT !.resolve = p]

\* The platform asks the lazy sequence of post p for its next fragment.
Pull(p) ==
  /\ pc # "exited"
  /\ relays[p].status = "flight"
  /\ relays[p].cons = "idle"
  /\ textStream(p)
  /\ UNCHANGED <<config, pc, nEvents, inTextBlock, currentTextBlock,
                 currentPost, retryVars, segs, openSeg>>

\* The woken lazy sequence of post p runs on.
Resume(p) ==
  /\ pc # "exited"
  /\ relays[p].status \in {"flight", "err"}
  /\ relays[p].cons = "woken"
  /\ textStream(p)
  /\ UNCHANGED <<config, pc, nEvents, inTextBlock, currentTextBlock,
                 currentPost, retryVars, segs, openSeg>>

\* thread.post(textStream()) rejects: the platform gives the sequence up and
\* asks it for nothing more; a sequence that waits inside textStream stays
\* there. The promise has no handler unless the dispatcher is at await
\* currentPost for this post: the rejection is then unhandled, and the
\* process either goes on (the host listens for unhandled rejections) or
\* ends (Node's default).
RelayPostFails(p) ==
  /\ pc # "exited"
  /\ relays[p].status = "flight"
  /\ failures < MaxFailures
  /\ failures' = failures + 1
  /\ \E e \in DispatchErrors :
       /\ relays' = [relays EXCEPT
                       ![p].status = "err",
                       ![p].cons = IF @ \in {"suspended", "woken"} THEN @
                                   ELSE "dead",
                       ![p].err = e]
       /\ \/ UNCHANGED <<pc, thrown>>
          \/ /\ ~(pc \in {"close", "closeEnd"} /\ currentPost = p)
             /\ pc' = "exited"
             /\ thrown' = [src |-> "unhandled", error |-> e]
  /\ UNCHANGED <<live, variant, upload, turnVars, pureVars, nEvents, inTextBlock,
                 currentTextBlock, state, currentPost, calls, sendQ, cont,
                 attempt, pwr, lastError, segs, openSeg>>

newRelay ==
  [ord |-> Begun + 1, ev |-> nEvents + 1, cons |-> "idle", status |-> "flight",
   recv |-> <<>>, pushed |-> <<>>, closed |-> FALSE, err |-> NoError]

\* startTextStream(): the relay is reset and a new post is begun, whatever
\* became of the post before it.
startTextStream ==
  /\ state' = EmptyRelay
  /\ relays' = Append(relays, newRelay)
  /\ currentPost' = Len(relays) + 1

\* The synchronous part of endTextStream(): streamDone = true;
\* chunkResolve?.(); the await of currentPost follows at pc "close".
endTextStream ==
  /\ state' = [state EXCEPT !.done = TRUE]
  /\ relays' = [wake(relays, state.resolve) EXCEPT ![currentPost].closed = TRUE]
  /\ currentPost' = currentPost

\* --------------------------------------------------------- postWithRetry

newCall(text, kind, seg) ==
  [ord |-> Begun + 1, ev |-> nEvents + 1, kind |-> kind, seg |-> seg,
   text |-> text, n |-> 1, outs |-> <<>>, slept |-> <<>>, result |-> "pending"]

\* The maximal prefix of t with no whitespace.
RECURSIVE wordAt(_)
wordAt(t) ==
  IF t = <<>> \/ Head(t) \in Spaces THEN <<>>
  ELSE <<Head(t)>> \o wordAt(Tail(t))

\* The matches of /(https?:\/\/[^\s<>"'`]+)/gi in t, in order. One character,
\* "u", stands for the text https://example.com/cat.png: a match begins at a
\* "u" and runs up to the next whitespace.
RECURSIVE bareUrlsOf(_)
bareUrlsOf(t) ==
  IF t = <<>> THEN <<>>
  ELSE IF Head(t) # "u" THEN bareUrlsOf(Tail(t))
  ELSE <<wordAt(t)>> \o bareUrlsOf(SubSeq(t, Len(wordAt(t)) + 1, Len(t)))

\* isLikelyImageUrl: the url ends in an image extension.
isLikelyImageUrl(url) == url[Len(url)] = "u"

\* [...urls]: a Set keeps the first of equal values.
RECURSIVE distinctOf(_)
distinctOf(values) ==
  IF values = <<>> THEN <<>>
  ELSE LET before == distinctOf(SubSeq(values, 1, Len(values) - 1))
           value  == values[Len(values)]
       IN  IF \E i \in DOMAIN before : before[i] = value THEN before
           ELSE Append(before, value)

MAX_OUTBOUND_IMAGES == 3

\* extractImageUrlsFromText of a text with no markdown image; every url of
\* the model is public.
extractImageUrlsFromText(t) ==
  Slice(distinctOf(SelectSeq(bareUrlsOf(t), isLikelyImageUrl)), 0,
        MAX_OUTBOUND_IMAGES)

\* fullResponseText of agent-runtime.ts, read from the segment history: a
\* delta is added to it exactly when a segment is open.
RECURSIVE fullResponseText(_)
fullResponseText(sg) ==
  IF sg = <<>> THEN <<>>
  ELSE fullResponseText(SubSeq(sg, 1, Len(sg) - 1)) \o sg[Len(sg)].text

\* The image urls uploadImageLinksFromResponse works on (agent-runtime.ts
\* only: rina/agent.ts has no such step).
imageUrls(sg) ==
  IF variant = "bot" THEN extractImageUrlsFromText(fullResponseText(sg))
  ELSE <<>>

\* The statements after the loop are done: uploadImageLinksFromResponse is
\* called and returns at once when there is no image url, else it awaits
\* the download of the first.
afterLoop(sg) == IF imageUrls(sg) = <<>> THEN "returned" ELSE "download"

\* What a handler does once its posts are done, on segment history sg:
\* "loop" takes the next event, "endText" first runs the statements that
\* follow the posts of a closed segment, "return" leaves the dispatcher.
\* s is the segment whose delivery is then complete, 0 for none.
continue(k, sg, s) ==
  /\ pc' = IF k = "return" THEN afterLoop(sg) ELSE "loop"
  /\ inTextBlock' = IF k = "endText" /\ variant = "bot" THEN FALSE
                    ELSE inTextBlock
  /\ currentTextBlock' = IF k = "endText" /\ variant = "rina" THEN <<>>
                         ELSE currentTextBlock
  /\ segs' = IF s # 0 THEN [sg EXCEPT ![s].delivered = TRUE] ELSE sg

\* for (const part of parts) await postWithRetry(thread, part), then k.
\* The first thread.post is called before the handler first suspends.
send(parts, kind, k, sg, s) ==
  IF parts = <<>>
  THEN /\ continue(k, sg, s)
       /\ UNCHANGED retryVars
  ELSE /\ pc' = "post"
       /\ sendQ' = parts
       /\ cont' = k
       /\ attempt' = 0
       /\ pwr' = "inflight"
       /\ calls' = Append(calls, newCall(parts[1], kind, s))
       /\ segs' = sg
       /\ UNCHANGED <<inTextBlock, currentTextBlock, lastError, failures>>

\* await thread.post(message) returns: postWithRetry returns, and the
\* handler goes on to its next payload or to what follows its posts.
PostSucceeds ==
  /\ pc = "post"
  /\ pwr = "inflight"
  /\ LET c    == Len(calls)
         done == [calls EXCEPT ![c].result = "ok", ![c].outs = Append(@, "ok")]
     IN  IF Len(sendQ) > 1
         THEN /\ sendQ' = Tail(sendQ)
              /\ attempt' = 0
              /\ calls' = Append(done,
                                 [newCall(sendQ[2], calls[c].kind, calls[c].seg)
                                    EXCEPT !.ev = calls[c].ev])
              /\ UNCHANGED <<pc, inTextBlock, currentTextBlock, segs, pwr, cont>>
         ELSE /\ sendQ' = <<>>
              /\ pwr' = "idle"
              /\ calls' = done
              /\ continue(cont, segs, calls[c].seg)
              /\ UNCHANGED <<attempt, cont>>
  /\ UNCHANGED <<config, nEvents, relayVars, lastError, failures, openSeg>>

\* The catch block's test: the error is rethrown.
rethrowsOneMore(n, error) ==
  n > Len(RETRY_DELAYS_MS) \/ ~isRetryableNetworkError(error)

rethrows(n, error) ==
  n >= Len(RETRY_DELAYS_MS) \/ ~isRetryableNetworkError(error)

\* The retries made so far, read from attempt: agent-runtime.ts adds one to
\* attempt before it sleeps, rina/agent.ts after.
retriesMade ==
  IF variant = "bot" /\ pwr = "sleeping" THEN attempt - 1 ELSE attempt

\* History: how a failed attempt's error counts for the retry budget.
outcome(error) == IF isRetryableNetworkError(error) THEN "retryable" ELSE "fatal"

PostFailsGoesOn(E, cap) ==
  /\ pc = "post"
  /\ pwr = "inflight"
  /\ failures < cap
  /\ failures' = failures + 1
  /\ \E error \in E :
       /\ lastError' = error
       /\ IF rethrows(attempt, error)
          THEN /\ pc' = "loop"
               /\ pwr' = "idle"
               /\ calls' = [calls EXCEPT ![Len(calls)].result = "err",
                                         ![Len(calls)].outs = Append(@, outcome(error))]
               /\ UNCHANGED <<attempt, thrown>>
          ELSE /\ pwr' = "sleeping"
               /\ attempt' = IF variant = "bot" THEN attempt + 1 ELSE attempt
               /\ calls' = [calls EXCEPT
                              ![Len(calls)].outs = Append(@, outcome(error))]
               /\ UNCHANGED <<pc, thrown>>
  /\ UNCHANGED <<live, variant, upload, turnVars, pureVars, nEvents, inTextBlock, currentTextBlock, relayVars,
                 sendQ, cont, segs, openSeg>>

\* await thread.post(message) throws a value of E; cap bounds the failures.
PostFails(E, cap) ==
  /\ pc = "post"
  /\ pwr = "inflight"
  /\ failures < cap
  /\ failures' = failures + 1
  /\ \E error \in E :
       /\ lastError' = error
       /\ IF rethrows(attempt, error)
          THEN /\ pc' = "failed"
               /\ thrown' = [src |-> "call", error |-> error]
               /\ pwr' = "idle"
               /\ calls' = [calls EXCEPT ![Len(calls)].result = "err",
                                         ![Len(calls)].outs = Append(@, outcome(error))]
               /\ UNCHANGED attempt
          ELSE /\ pwr' = "sleeping"
               /\ attempt' = IF variant = "bot" THEN attempt + 1 ELSE attempt
               /\ calls' = [calls EXCEPT
                              ![Len(calls)].outs = Append(@, outcome(error))]
               /\ UNCHANGED <<pc, thrown>>
  /\ UNCHANGED <<live, variant, upload, turnVars, pureVars, nEvents, inTextBlock, currentTextBlock, relayVars,
                 sendQ, cont, segs, openSeg>>

\* await sleep returns after the first delay, whichever retry it is.
SleepDoneFirstDelay ==
  /\ pc = "post"
  /\ pwr = "sleeping"
  /\ calls' = [calls EXCEPT ![Len(calls)].slept = Append(@, RETRY_DELAYS_MS[1]),
                            ![Len(calls)].n = @ + 1]
  /\ attempt' = IF variant = "bot" THEN attempt ELSE attempt + 1
  /\ pwr' = "inflight"
  /\ UNCHANGED <<config, pc, nEvents, inTextBlock, currentTextBlock, relayVars,
                 sendQ, cont, lastError, failures, segs, openSeg>>

\* await sleep(delay) returns and the loop calls thread.post again.
SleepDone ==
  /\ pc = "post"
  /\ pwr = "sleeping"
  /\ LET delay == RETRY_DELAYS_MS[retriesMade + 1]
     IN  calls' = [calls EXCEPT ![Len(calls)].slept = Append(@, delay),
                                ![Len(calls)].n = @ + 1]
  /\ attempt' = IF variant = "bot" THEN attempt ELSE attempt + 1
  /\ pwr' = "inflight"
  /\ UNCHANGED <<config, pc, nEvents, inTextBlock, currentTextBlock, relayVars,
                 sendQ, cont, lastError, failures, segs, openSeg>>

\* ------------------------------------------------------------ dispatcher

newSeg == [start |-> nEvents + 1, text |-> <<>>, endedBy |-> "", delivered |-> FALSE]

\* The segment history after the open segment, if any, ends by `how`.
endSeg(how) ==
  IF openSeg # 0 THEN [segs EXCEPT ![openSeg].endedBy = how] ELSE segs

\* The chunks a buffering handler posts for the text it has accumulated.
partsOf(text) == IF Len(trim(text)) > 0 THEN splitLongText(text) ELSE <<>>

\* The payload of a status notice: `> ${status}`.
notice(status) == <<">", " ", status>>

\* content_block_start of a text block / text-start.
TextStartKeepsBuffer ==
  /\ pc = "loop"
  /\ nEvents < EventBound
  /\ nEvents' = nEvents + 1
  /\ segs' = Append(endSeg("TextStart"), newSeg)
  /\ openSeg' = Len(segs) + 1
  /\ IF live
     THEN /\ startTextStream
          /\ inTextBlock' = TRUE
          /\ currentTextBlock' = IF variant = "bot" THEN <<>> ELSE currentTextBlock
     ELSE /\ currentTextBlock' = currentTextBlock
          /\ inTextBlock' = IF variant = "bot" THEN TRUE ELSE inTextBlock
          /\ UNCHANGED relayVars
  /\ UNCHANGED <<config, pc, retryVars>>

TextStart ==
  /\ pc = "loop"
  /\ nEvents < EventBound
  /\ nEvents' = nEvents + 1
  /\ segs' = Append(endSeg("TextStart"), newSeg)
  /\ openSeg' = Len(segs) + 1
  /\ IF live
     THEN /\ startTextStream
          /\ inTextBlock' = TRUE
          /\ currentTextBlock' = IF variant = "bot" THEN <<>> ELSE currentTextBlock
     ELSE /\ currentTextBlock' = <<>>
          /\ inTextBlock' = IF variant = "bot" THEN TRUE ELSE inTextBlock
          /\ UNCHANGED relayVars
  /\ UNCHANGED <<config, pc, retryVars>>

\* Whether the handler of a text delta (or, when buffering, of the end of a
\* text block) acts: bufferToChat of rina/agent.ts tests no inTextBlock.
inBlock == IF ~live /\ variant = "rina" THEN TRUE ELSE inTextBlock

\* content_block_delta with a text_delta / text-delta.
TextDelta(text) ==
  /\ pc = "loop"
  /\ nEvents < EventBound
  /\ nEvents' = nEvents + 1
  /\ segs' = IF openSeg # 0 THEN [segs EXCEPT ![openSeg].text = @ \o text]
             ELSE segs
  /\ IF inBlock
     THEN /\ currentTextBlock' = IF live /\ variant = "rina" THEN currentTextBlock
                                 ELSE currentTextBlock \o text
          /\ IF live
             THEN /\ state' = [state EXCEPT !.chunks = pushChunk(@, text)]
                  /\ relays' = [wake(relays, state.resolve)
                                  EXCEPT ![currentPost].pushed = Append(@, text)]
                  /\ UNCHANGED currentPost
             ELSE UNCHANGED relayVars
     ELSE UNCHANGED <<currentTextBlock, relayVars>>
  /\ UNCHANGED <<config, pc, inTextBlock, retryVars, openSeg>>

\* content_block_stop / text-end.
TextEnd ==
  /\ pc = "loop"
  /\ nEvents < EventBound
  /\ nEvents' = nEvents + 1
  /\ openSeg' = 0
  /\ IF ~inBlock
     THEN /\ segs' = endSeg("TextEnd")
          /\ UNCHANGED <<pc, inTextBlock, currentTextBlock, relayVars, retryVars>>
     ELSE IF live
     THEN /\ endTextStream
          /\ pc' = "close"
          /\ segs' = endSeg("TextEnd")
          /\ UNCHANGED <<inTextBlock, currentTextBlock, retryVars>>
     ELSE /\ send(partsOf(currentTextBlock), "text", "endText",
                  endSeg("TextEnd"), openSeg)
          /\ UNCHANGED relayVars
  /\ UNCHANGED config

\* content_block_start of a tool_use block / tool-input-start.
ToolInvocationStart(toolName) ==
  /\ pc = "loop"
  /\ nEvents < EventBound
  /\ nEvents' = nEvents + 1
  /\ IF toolName \in DOMAIN TOOL_STATUS
     THEN send(<<notice(TOOL_STATUS[toolName])>>, "notice", "loop", segs, 0)
     ELSE UNCHANGED <<pc, inTextBlock, currentTextBlock, retryVars, segs>>
  /\ UNCHANGED <<config, relayVars, openSeg>>

\* The agent's stream ends: the statements after the loop.
StreamEnds ==
  /\ pc = "loop"
  /\ nEvents' = nEvents + 1
  /\ openSeg' = 0
  /\ IF live
     THEN IF inTextBlock
          THEN /\ endTextStream
               /\ pc' = "closeEnd"
               /\ segs' = endSeg("EndOfStream")
               /\ UNCHANGED <<inTextBlock, currentTextBlock, retryVars>>
          ELSE /\ pc' = afterLoop(segs)
               /\ segs' = endSeg("EndOfStream")
               /\ UNCHANGED <<inTextBlock, currentTextBlock, relayVars, retryVars>>
     ELSE /\ send(IF inBlock THEN partsOf(currentTextBlock) ELSE <<>>,
                  "text", "return", endSeg("EndOfStream"), openSeg)
          /\ UNCHANGED relayVars
  /\ UNCHANGED config

\* The agent's stream raises and the dispatcher closes the relay on its way
\* out, as a finally block would.
StreamRaisesClosesRelay ==
  /\ pc = "loop"
  /\ nEvents' = nEvents + 1
  /\ pc' = "failed"
  /\ thrown' = [src |-> "stream", error |-> NoError]
  /\ IF live /\ inTextBlock THEN endTextStream ELSE UNCHANGED relayVars
  /\ UNCHANGED <<live, variant, upload, turnVars, pureVars, inTextBlock, currentTextBlock,
                 retryVars, segs, openSeg>>

\* The agent's stream raises: the error leaves the dispatcher.
StreamRaises ==
  /\ pc = "loop"
  /\ nEvents' = nEvents + 1
  /\ pc' = "failed"
  /\ thrown' = [src |-> "stream", error |-> NoError]
  /\ UNCHANGED <<live, variant, upload, turnVars, pureVars, inTextBlock, currentTextBlock, relayVars,
                 retryVars, segs, openSeg>>

\* await currentPost returns after a text block's end: currentPost = null;
\* inTextBlock = false.
CloseReturns ==
  /\ pc = "close"
  /\ relays[currentPost].status = "ok"
  /\ currentPost' = 0
  /\ inTextBlock' = FALSE
  /\ pc' = "loop"
  /\ segs' = [segs EXCEPT ![Len(segs)].delivered = TRUE]
  /\ UNCHANGED <<config, nEvents, currentTextBlock, state, relays, retryVars,
                 openSeg>>

\* await currentPost returns after the end of the stream; endTextStream of
\* agent-runtime.ts also clears currentPost.
CloseEndReturns ==
  /\ pc = "closeEnd"
  /\ relays[currentPost].status = "ok"
  /\ currentPost' = IF variant = "bot" THEN 0 ELSE currentPost
  /\ pc' = afterLoop(segs)
  /\ segs' = [segs EXCEPT ![Len(segs)].delivered = TRUE]
  /\ UNCHANGED <<config, nEvents, inTextBlock, currentTextBlock, state, relays,
                 retryVars, openSeg>>

\* await currentPost throws what the relay post was rejected with.
CloseThrows ==
  /\ pc \in {"close", "closeEnd"}
  /\ relays[currentPost].status = "err"
  /\ pc' = "failed"
  /\ thrown' = [src |-> "relay", error |-> relays[currentPost].err]
  /\ UNCHANGED <<live, variant, upload, turnVars, pureVars, nEvents, inTextBlock, currentTextBlock,
                 relayVars, retryVars, segs, openSeg>>

\* ------------------------------------------- uploadImageLinksFromResponse

\* The loop goes on after url u.i with record u: the next download, or after
\* the last url the fallback notice when nothing was uploaded, else the
\* return of handleQuery. A post of uploadImageLinksFromResponse is made
\* with thread.post, not postWithRetry.
nextUrl(u) ==
  IF u.i < Len(imageUrls(segs))
  THEN /\ pc' = "download"
       /\ upload' = [u EXCEPT !.i = @ + 1]
  ELSE IF u.count = 0
  THEN /\ pc' = "fallbackPost"
       /\ upload' = [u EXCEPT !.i = @ + 1,
                              !.posts = Append(@, [kind |-> "fallback", url |-> <<>>,
                                                 result |-> "pending"])]
  ELSE /\ pc' = "returned"
       /\ upload' = [u EXCEPT !.i = @ + 1]

\* await downloadRemoteImage(imageUrl) returns a file, and the upload is
\* posted; or it returns null or throws, and the loop goes on.
DownloadReturns(file) ==
  /\ pc = "download"
  /\ IF file
     THEN /\ pc' = "uploadPost"
          /\ upload' = [upload EXCEPT !.posts =
                          Append(@, [kind |-> "upload",
                                     url |-> imageUrls(segs)[upload.i],
                                     result |-> "pending"])]
     ELSE nextUrl(upload)
  /\ UNCHANGED <<live, variant, thrown, turnVars, pureVars, nEvents, inTextBlock,
                 currentTextBlock, relayVars, retryVars, segs, openSeg>>

\* await thread.post of an upload returns: uploadedCount += 1.
UploadPostSucceeds ==
  /\ pc = "uploadPost"
  /\ nextUrl([upload EXCEPT !.count = @ + 1,
                            !.posts[Len(upload.posts)].result = "ok"])
  /\ UNCHANGED <<live, variant, thrown, turnVars, pureVars, nEvents, inTextBlock,
                 currentTextBlock, relayVars, retryVars, segs, openSeg>>

\* The same post rejects: the catch block swallows the error.
UploadPostFails ==
  /\ pc = "uploadPost"
  /\ failures < MaxFailures
  /\ failures' = failures + 1
  /\ nextUrl([upload EXCEPT !.posts[Len(upload.posts)].result = "err"])
  /\ UNCHANGED <<live, variant, thrown, turnVars, pureVars, nEvents, inTextBlock,
                 currentTextBlock, relayVars, calls, sendQ, cont, attempt, pwr,
                 lastError, segs, openSeg>>

\* await thread.post of the fallback notice returns, and handleQuery does.
FallbackPostSucceeds ==
  /\ pc = "fallbackPost"
  /\ pc' = "returned"
  /\ upload' = [upload EXCEPT !.posts[Len(upload.posts)].result = "ok"]
  /\ UNCHANGED <<live, variant, thrown, turnVars, pureVars, nEvents, inTextBlock,
                 currentTextBlock, relayVars, retryVars, segs, openSeg>>

\* The same post rejects: the error leaves handleQuery, with no retry.
FallbackPostFails ==
  /\ pc = "fallbackPost"
  /\ failures < MaxFailures
  /\ failures' = failures + 1
  /\ pc' = "failed"
  /\ upload' = [upload EXCEPT !.posts[Len(upload.posts)].result = "err"]
  /\ \E e \in DispatchErrors : thrown' = [src |-> "upload", error |-> e]
  /\ UNCHANGED <<live, variant, turnVars, pureVars, nEvents, inTextBlock,
                 currentTextBlock, relayVars, calls, sendQ, cont, attempt, pwr,
                 lastError, segs, openSeg>>

Next ==
  \/ TextStart
  \/ \E text \in Fragments : TextDelta(text)
  \/ TextEnd
  \/ \E toolName \in ToolNames : ToolInvocationStart(toolName)
  \/ StreamEnds
  \/ StreamRaises
  \/ CloseReturns
  \/ CloseEndReturns
  \/ CloseThrows
  \/ PostSucceeds
  \/ PostFails(DispatchErrors, MaxFailures)
  \/ SleepDone
  \/ \E p \in DOMAIN relays : Pull(p)
  \/ \E p \in DOMAIN relays : Resume(p)
  \/ \E p \in DOMAIN relays : RelayPostFails(p)
  \/ \E file \in BOOLEAN : DownloadReturns(file)
  \/ UploadPostSucceeds
  \/ UploadPostFails
  \/ FallbackPostSucceeds
  \/ FallbackPostFails

Spec == Init /\ [][Next]_vars

\* ------------------------------------------- the events that carry no text

\* Session ids the agent yields and the state store may hold.
SessionIds == {"s1", "s2"}

\* What else the agent's stream yields: a tool's result, and the system/init
\* message that carries the session id.
OtherEvents == {"ToolResult", "SessionInit"}

\* A tool's result or the session announcement posts something, as a status
\* notice does.
NonTextEventPosts(kind) ==
  /\ pc = "loop"
  /\ nEvents < EventBound
  /\ nEvents' = nEvents + 1
  /\ send(<<notice(TOOL_STATUS["WebSearch"])>>, "notice", "loop", segs, 0)
  /\ UNCHANGED <<config, relayVars, openSeg>>

\* An event that is neither a text event nor the start of a tool's input:
\* agent-runtime.ts sets sessionId to the session_id of a system/init
\* message and skips every message that is not a stream event;
\* rina/agent.ts has no handler for these parts and keeps no session id.
NonTextEvent(kind) ==
  /\ pc = "loop"
  /\ nEvents < EventBound
  /\ nEvents' = nEvents + 1
  /\ IF variant = "bot" /\ kind = "SessionInit"
     THEN \E id \in SessionIds : sessionId' = id
     ELSE UNCHANGED sessionId
  /\ UNCHANGED <<live, variant, thrown, upload, pureVars, accessVars, handler,
                 inbound, tpc, phase, stored, hint, success, caught,
                 tfailures, runs, effects, pc, inTextBlock, currentTextBlock,
                 relayVars, retryVars, segs, openSeg>>

\* The dispatcher with every kind of event and the delivery of the notices,
\* failures and retries included; the agent's stream does not raise and the
\* platform does not reject a relay post.
NextEvents ==
  \/ TextStart
  \/ \E text \in Fragments : TextDelta(text)
  \/ TextEnd
  \/ \E toolName \in ToolNames : ToolInvocationStart(toolName)
  \/ \E kind \in OtherEvents : NonTextEvent(kind)
  \/ StreamEnds
  \/ CloseReturns
  \/ CloseEndReturns
  \/ PostSucceeds
  \/ PostFails(DispatchErrors, MaxFailures)
  \/ SleepDone
  \/ \E p \in DOMAIN relays : Pull(p)
  \/ \E p \in DOMAIN relays : Resume(p)
  \/ \E file \in BOOLEAN : DownloadReturns(file)
  \/ UploadPostSucceeds
  \/ UploadPostFails
  \/ FallbackPostSucceeds
  \/ FallbackPostFails

SpecEvents == Init /\ [][NextEvents]_vars

\* ------------------------------------------- the dispatcher with retries

\* The dispatcher in which thread.post may fail often enough for one
\* postWithRetry call to use its whole budget; the agent's stream does not
\* raise and the platform does not reject a relay post.
NextBackoff ==
  \/ TextStart
  \/ \E text \in Fragments : TextDelta(text)
  \/ TextEnd
  \/ \E toolName \in ToolNames : ToolInvocationStart(toolName)
  \/ StreamEnds
  \/ CloseReturns
  \/ CloseEndReturns
  \/ PostSucceeds
  \/ PostFails(DispatchErrors, Len(RETRY_DELAYS_MS) + 1)
  \/ SleepDone
  \/ \E p \in DOMAIN relays : Pull(p)
  \/ \E p \in DOMAIN relays : Resume(p)
  \/ \E file \in BOOLEAN : DownloadReturns(file)
  \/ UploadPostSucceeds
  \/ UploadPostFails
  \/ FallbackPostSucceeds
  \/ FallbackPostFails

SpecBackoff == Init /\ [][NextBackoff]_vars

\* ------------------------------------------------- one postWithRetry call

\* A single call of postWithRetry, begun, with every outcome of thread.post
\* open to each attempt.
InitRetry ==
  /\ live = FALSE
  /\ variant \in {"bot", "rina"}
  /\ pc = "post"
  /\ nEvents = 0
  /\ inTextBlock = FALSE
  /\ currentTextBlock = <<>>
  /\ state = EmptyRelay
  /\ currentPost = 0
  /\ relays = <<>>
  /\ \E text \in {<<"a", "b", "\n">>, notice(TOOL_STATUS["WebSearch"])} :
       /\ sendQ = <<text>>
       /\ calls = <<[ord |-> 1, ev |-> 1, kind |-> "text", seg |-> 0,
                     text |-> text, n |-> 1, outs |-> <<>>, slept |-> <<>>,
                     result |-> "pending"]>>
  /\ cont = "return"
  /\ attempt = 0
  /\ pwr = "inflight"
  /\ lastError = NoError
  /\ failures = 0
  /\ thrown = NotThrown
  /\ segs = <<>>
  /\ openSeg = 0
  /\ upload = NoUpload
  /\ NoTurn
  /\ NoDigest
  /\ NoPrompt
  /\ NoRace
  /\ NoAssembly
  /\ NoSplit

NextRetry ==
  \/ PostSucceeds
  \/ PostFails(Errors, Len(RETRY_DELAYS_MS) + 1)
  \/ SleepDone

SpecRetry == InitRetry /\ [][NextRetry]_vars

\* ------------------------------------------------------- the turn handler

\* Failed operations (platform calls, state store, agent runs) in one turn.
MaxTurnFailures == 3

\* system/init messages one agent run yields.
MaxInits == 2

MsgProcessExited ==
  <<"C", "l", "a", "u", "d", "e", " ", "C", "o", "d", "e", " ", "p", "r", "o",
    "c", "e", "s", "s", " ", "e", "x", "i", "t", "e", "d", " ", "w", "i", "t",
    "h", " ", "c", "o", "d", "e", " ", "1">>

MsgSpawnFailed ==
  <<"F", "a", "i", "l", "e", "d", " ", "t", "o", " ", "s", "p", "a", "w", "n",
    " ", "C", "l", "a", "u", "d", "e", " ", "C", "o", "d", "e", " ", "p", "r",
    "o", "c", "e", "s", "s">>

PhraseProcessExited ==
  <<"c", "l", "a", "u", "d", "e", " ", "c", "o", "d", "e", " ", "p", "r", "o",
    "c", "e", "s", "s", " ", "e", "x", "i", "t", "e", "d", " ", "w", "i", "t",
    "h", " ", "c", "o", "d", "e">>

PhraseSpawnFailed ==
  <<"f", "a", "i", "l", "e", "d", " ", "t", "o", " ", "s", "p", "a", "w", "n",
    " ", "c", "l", "a", "u", "d", "e", " ", "c", "o", "d", "e", " ", "p", "r",
    "o", "c", "e", "s", "s">>

\* The values thrown inside a turn: isError is `error instanceof Error`; the
\* one value that is no Error carries the text of a process exit.
TurnErrors ==
  [isError : {TRUE}, message : {MsgProcessExited, MsgSpawnFailed, MsgFetchFailed}]
  \cup {[isError |-> FALSE, message |-> MsgProcessExited]}

NoTurnError == [isError |-> FALSE, message |-> MsgFetchFailed]

isClaudeProcessExitErrorAnyError(error) == error.isError

isClaudeProcessExitError(error) ==
  /\ error.isError
  /\ LET text == toLowerCase(error.message)
     IN  \/ includes(text, PhraseProcessExited)
         \/ includes(text, PhraseSpawnFailed)

\* History entries: a call the handler made, or an operation that threw.
effect(op, arg) == [op |-> op, arg |-> arg, error |-> NoTurnError]

threw(step, error) == [op |-> "throw", arg |-> step, error |-> error]

dispatcherVars ==
  <<live, variant, pc, nEvents, inTextBlock, currentTextBlock, state,
    currentPost, relays, calls, sendQ, cont, attempt, pwr, lastError,
    failures, thrown, segs, openSeg, upload>>

\* The message is one the handler works on: not the bot's own (subscribed
\* handler), from an allowed sender, and not the /testimage command that
\* handleTriggerCommand of the bot variant answers by itself.
Accepted ==
  /\ ~(handler = "subscribed" /\ inbound.isMe)
  /\ inbound.allowed
  /\ ~(variant = "bot" /\ inbound.trigger)

InitTurn ==
  /\ live = FALSE
  /\ variant \in {"bot", "rina"}
  /\ InitDispatcher
  /\ NoDigest
  /\ NoPrompt
  /\ NoRace
  /\ handler \in {"first", "subscribed"}
  /\ inbound \in [isMe : BOOLEAN, allowed : BOOLEAN, trigger : BOOLEAN]
  /\ tpc = "receive"
  /\ phase = "plain"
  /\ stored \in IF variant = "bot" THEN {""} \cup SessionIds ELSE {""}
  /\ hint = ""
  /\ sessionId = ""
  /\ success = FALSE
  /\ caught = NoTurnError
  /\ tfailures = 0
  /\ runs = <<>>
  /\ effects = <<>>
  /\ NoAccess
  /\ NoAssembly
  /\ NoSplit

\* The guards of the handler, thread.subscribe() (first message) and
\* markProcessingStart.
Receive ==
  /\ tpc = "receive"
  /\ IF ~Accepted
     THEN /\ tpc' = "ignored"
          /\ effects' = IF ~(handler = "subscribed" /\ inbound.isMe)
                           /\ inbound.allowed
                        THEN <<effect("post", "testimage")>> ELSE <<>>
     ELSE /\ effects' = IF handler = "first"
                        THEN <<effect("subscribe", ""), effect("markStart", "")>>
                        ELSE <<effect("markStart", "")>>
          /\ tpc' = IF handler = "first" THEN "prompt"
                    ELSE IF variant = "bot" THEN "readState" ELSE "history"
  /\ UNCHANGED <<dispatcherVars, pureVars, accessVars, handler, inbound, phase, stored, hint,
                 sessionId, success, caught, tfailures, runs>>

\* handleTriggerCommand of the bot variant answers /testimage: readFile of
\* the image, or the post of it, rejects. Both stand outside any try block:
\* the error leaves the handler and nothing is posted.
TriggerCommandFails ==
  /\ tpc = "receive"
  /\ variant = "bot"
  /\ inbound.trigger
  /\ inbound.allowed
  /\ ~(handler = "subscribed" /\ inbound.isMe)
  /\ tfailures < MaxTurnFailures
  /\ tfailures' = tfailures + 1
  /\ tpc' = "escaped"
  /\ \E step \in {"readFile", "testimage"} :
       \E error \in TurnErrors : effects' = <<threw(step, error)>>
  /\ UNCHANGED <<dispatcherVars, pureVars, accessVars, handler, inbound, phase,
                 stored, hint, sessionId, success, caught, runs>>

\* thread.subscribe() throws: the error leaves handleFirstMessage before
\* the processing indicator is set.
SubscribeFails ==
  /\ tpc = "receive"
  /\ handler = "first"
  /\ Accepted
  /\ tfailures < MaxTurnFailures
  /\ tfailures' = tfailures + 1
  /\ tpc' = "escaped"
  /\ \E error \in TurnErrors : effects' = <<threw("subscribe", error)>>
  /\ UNCHANGED <<dispatcherVars, pureVars, accessVars, handler, inbound, phase, stored, hint,
                 sessionId, success, caught, runs>>

\* rina handleSubscribedMessage: Promise.all of convertThreadHistory and
\* getDigestThreadContext resolves.
HistoryFetched ==
  /\ tpc = "history"
  /\ tpc' = "prompt"
  /\ effects' = Append(effects, effect("history", ""))
  /\ UNCHANGED <<dispatcherVars, pureVars, accessVars, handler, inbound, phase, stored, hint,
                 sessionId, success, caught, tfailures, runs>>

\* The same Promise.all rejects: the await stands before the try block, so
\* the error leaves the handler.
HistoryFails ==
  /\ tpc = "history"
  /\ tfailures < MaxTurnFailures
  /\ tfailures' = tfailures + 1
  /\ tpc' = "escaped"
  /\ \E error \in TurnErrors : effects' = Append(effects, threw("history", error))
  /\ UNCHANGED <<dispatcherVars, pureVars, accessVars, handler, inbound, phase, stored, hint,
                 sessionId, success, caught, runs>>

\* runAssistantWithResumeFallback: const state = await thread.state;
\* const resume = state?.sdkSessionId, and the test of resume.
ReadStateNoHint ==
  /\ tpc = "readState"
  /\ tpc' = "prompt"
  /\ hint' = ""
  /\ phase' = "plain"
  /\ effects' = Append(effects, effect("readState", stored))
  /\ UNCHANGED <<dispatcherVars, pureVars, accessVars, handler, inbound, stored, sessionId, success,
                 caught, tfailures, runs>>

ReadState ==
  /\ tpc = "readState"
  /\ tpc' = "prompt"
  /\ hint' = stored
  /\ phase' = IF stored = "" THEN "plain" ELSE "resumed"
  /\ effects' = Append(effects, effect("readState", stored))
  /\ UNCHANGED <<dispatcherVars, pureVars, accessVars, handler, inbound, stored, sessionId, success,
                 caught, tfailures, runs>>

\* The catch of runAssistantWithResumeFallback takes the fallback: the run
\* was started with a resume hint and the error is of the process-exit class.
fallsBackAgain(error) ==
  phase \in {"resumed", "fresh"} /\ isClaudeProcessExitError(error)

fallsBack(error) == phase = "resumed" /\ isClaudeProcessExitError(error)

\* runAssistant up to the call of handleQuery: buildPromptFromMessage and
\* the post of its warnings, if any.
PromptBuilt ==
  /\ tpc = "prompt"
  /\ tpc' = "query"
  /\ sessionId' = ""
  /\ runs' = Append(runs, [hint |-> hint, inits |-> <<>>, outcome |-> "running"])
  /\ \E warnings \in BOOLEAN :
       effects' = (IF warnings THEN Append(effects, effect("post", "warnings"))
                   ELSE effects) \o <<effect("run", hint)>>
  /\ UNCHANGED <<dispatcherVars, pureVars, accessVars, handler, inbound, phase, stored, hint,
                 success, caught, tfailures>>

\* handleQuery: a system/init message sets sessionId.
SessionInitFirstWins(id) ==
  /\ tpc = "query"
  /\ variant = "bot"
  /\ Len(Last(runs).inits) < MaxInits
  /\ sessionId' = IF sessionId = "" THEN id ELSE sessionId
  /\ runs' = [runs EXCEPT ![Len(runs)].inits = Append(@, id)]
  /\ UNCHANGED <<dispatcherVars, pureVars, accessVars, handler, inbound, tpc, phase, stored, hint,
                 success, caught, tfailures, effects>>

SessionInit(id) ==
  /\ tpc = "query"
  /\ variant = "bot"
  /\ Len(Last(runs).inits) < MaxInits
  /\ sessionId' = id
  /\ runs' = [runs EXCEPT ![Len(runs)].inits = Append(@, id)]
  /\ UNCHANGED <<dispatcherVars, pureVars, accessVars, handler, inbound, tpc, phase, stored, hint,
                 success, caught, tfailures, effects>>

\* handleQuery returns: runAssistant stores the session id, if there is one
\* (the rina variant returns nothing and stores nothing).
QueryReturns ==
  /\ tpc = "query"
  /\ runs' = [runs EXCEPT ![Len(runs)].outcome = "returned"]
  /\ IF variant = "bot" /\ sessionId # ""
     THEN /\ tpc' = "store"
          /\ UNCHANGED success
     ELSE /\ tpc' = "finally"
          /\ success' = TRUE
  /\ UNCHANGED <<dispatcherVars, pureVars, accessVars, handler, inbound, phase, stored, hint,
                 sessionId, caught, tfailures, effects>>

\* await thread.setState({ sdkSessionId: sessionId }) returns; runAssistant
\* and the try block end.
Stored ==
  /\ tpc = "store"
  /\ stored' = sessionId
  /\ effects' = Append(effects, effect("setState", sessionId))
  /\ success' = TRUE
  /\ tpc' = "finally"
  /\ UNCHANGED <<dispatcherVars, pureVars, accessVars, handler, inbound, phase, hint, sessionId,
                 caught, tfailures, runs>>

\* Something inside runAssistant throws: buildPromptFromMessage or the post
\* of the warnings, handleQuery, or setState.
RunAssistantThrows ==
  /\ tpc \in {"prompt", "query", "store"}
  /\ tfailures < MaxTurnFailures
  /\ tfailures' = tfailures + 1
  /\ runs' = IF tpc \in {"query", "store"}
             THEN [runs EXCEPT ![Len(runs)].outcome =
                     IF tpc = "query" THEN "raised" ELSE @]
             ELSE runs
  /\ \E error \in TurnErrors :
       /\ effects' = Append(effects, threw(tpc, error))
       /\ caught' = error
       /\ tpc' = IF fallsBack(error) THEN "clear" ELSE "catch"
  /\ UNCHANGED <<dispatcherVars, pureVars, accessVars, handler, inbound, phase, stored, hint,
                 sessionId, success>>

\* The fallback: await thread.setState({}, { replace: true }).
ClearStateKeepsSession ==
  /\ tpc = "clear"
  /\ tpc' = "notice"
  /\ stored' = stored
  /\ effects' = Append(effects, effect("clearState", ""))
  /\ UNCHANGED <<dispatcherVars, pureVars, accessVars, handler, inbound, phase, hint, sessionId,
                 success, caught, tfailures, runs>>

ClearState ==
  /\ tpc = "clear"
  /\ tpc' = "notice"
  /\ stored' = ""
  /\ effects' = Append(effects, effect("clearState", ""))
  /\ UNCHANGED <<dispatcherVars, pureVars, accessVars, handler, inbound, phase, hint, sessionId,
                 success, caught, tfailures, runs>>

\* The fallback: the could-not-resume notice is posted and runAssistant is
\* called again, with no opts.
PostResumeNotice ==
  /\ tpc = "notice"
  /\ tpc' = "prompt"
  /\ phase' = "fresh"
  /\ hint' = ""
  /\ effects' = Append(effects, effect("post", "resumeNotice"))
  /\ UNCHANGED <<dispatcherVars, pureVars, accessVars, handler, inbound, stored, sessionId, success,
                 caught, tfailures, runs>>

\* await thread.state, or setState / thread.post of the fallback, throws:
\* the error reaches the handler's catch block.
FallbackThrows ==
  /\ tpc \in {"readState", "clear", "notice"}
  /\ tfailures < MaxTurnFailures
  /\ tfailures' = tfailures + 1
  /\ tpc' = "catch"
  /\ \E error \in TurnErrors :
       /\ effects' = Append(effects, threw(tpc, error))
       /\ caught' = error
  /\ UNCHANGED <<dispatcherVars, pureVars, accessVars, handler, inbound, phase, stored, hint,
                 sessionId, success, runs>>

\* The handler's catch block: the failure notice is posted; a failure of
\* that post is swallowed.
PostFailureNotice ==
  /\ tpc = "catch"
  /\ tpc' = "finally"
  /\ \/ /\ effects' = Append(effects, effect("post", "failureNotice"))
        /\ UNCHANGED tfailures
     \/ /\ tfailures < MaxTurnFailures
        /\ tfailures' = tfailures + 1
        /\ effects' = Append(effects, effect("postFailed", "failureNotice"))
  /\ UNCHANGED <<dispatcherVars, pureVars, accessVars, handler, inbound, phase, stored, hint,
                 sessionId, success, caught, runs>>

\* The handler's finally block.
Finally ==
  /\ tpc = "finally"
  /\ tpc' = "done"
  /\ effects' = Append(effects, effect(IF success THEN "markComplete"
                                       ELSE "clearIndicator", ""))
  /\ UNCHANGED <<dispatcherVars, pureVars, accessVars, handler, inbound, phase, stored, hint,
                 sessionId, success, caught, tfailures, runs>>

NextTurn ==
  \/ Receive
  \/ TriggerCommandFails
  \/ SubscribeFails
  \/ HistoryFetched
  \/ HistoryFails
  \/ ReadState
  \/ PromptBuilt
  \/ \E id \in SessionIds : SessionInit(id)
  \/ QueryReturns
  \/ Stored
  \/ RunAssistantThrows
  \/ ClearState
  \/ PostResumeNotice
  \/ FallbackThrows
  \/ PostFailureNotice
  \/ Finally

SpecTurn == InitTurn /\ [][NextTurn]_vars

\* ------------------------------- two follow-up messages of one thread

\* Two handleSubscribedMessage calls of the bot variant run side by side on
\* one thread; each is at the start of runAssistantWithResumeFallback.
InitRace ==
  /\ live = FALSE
  /\ variant = "bot"
  /\ InitDispatcher
  /\ NoDigest
  /\ NoPrompt
  /\ NoAssembly
  /\ NoSplit
  /\ NoAccess
  /\ handler = "subscribed"
  /\ inbound = [isMe |-> FALSE, allowed |-> TRUE, trigger |-> FALSE]
  /\ tpc = "idle"
  /\ phase = "plain"
  /\ stored \in {""} \cup SessionIds
  /\ hint = ""
  /\ sessionId = ""
  /\ success = FALSE
  /\ caught = NoTurnError
  /\ tfailures = 0
  /\ runs = <<>>
  /\ effects = <<>>
  /\ racePc = [r \in Runs |-> "readState"]
  /\ raceHint = [r \in Runs |-> ""]
  /\ raceSession = [r \in Runs |-> ""]
  /\ raceWrites = <<>>

\* const state = await thread.state; const resume = state?.sdkSessionId;
\* runAssistant is called with it.
RaceReadState(r) ==
  /\ racePc[r] = "readState"
  /\ raceHint' = [raceHint EXCEPT ![r] = stored]
  /\ racePc' = [racePc EXCEPT ![r] = "query"]
  /\ UNCHANGED <<dispatcherVars, turnVars, assemblyVars, splitVars, digestVars,
                 promptVars, raceSession, raceWrites>>

\* await thread.state rejects: the error leaves
\* runAssistantWithResumeFallback with no resume hint read and no write.
RaceReadStateFails(r) ==
  /\ racePc[r] = "readState"
  /\ racePc' = [racePc EXCEPT ![r] = "done"]
  /\ UNCHANGED <<dispatcherVars, turnVars, assemblyVars, splitVars, digestVars,
                 promptVars, raceHint, raceSession, raceWrites>>

\* handleQuery returns the session id of its run, or undefined.
RaceQueryReturns(r, id) ==
  /\ racePc[r] \in {"query", "fresh"}
  /\ raceSession' = [raceSession EXCEPT ![r] = id]
  /\ racePc' = [racePc EXCEPT ![r] = IF id # "" THEN "store" ELSE "done"]
  /\ UNCHANGED <<dispatcherVars, turnVars, assemblyVars, splitVars, digestVars,
                 promptVars, raceHint, raceWrites>>

\* A write that is dropped when another write came first.
RaceStoredKeepsFirst(r) ==
  /\ racePc[r] = "store"
  /\ stored' = IF raceWrites = <<>> THEN raceSession[r] ELSE stored
  /\ raceWrites' = Append(raceWrites, [run |-> r, id |-> raceSession[r]])
  /\ racePc' = [racePc EXCEPT ![r] = "done"]
  /\ UNCHANGED <<dispatcherVars, assemblyVars, splitVars, digestVars,
                 promptVars, accessVars, handler, inbound, tpc,
                 phase, hint, sessionId, success, caught, tfailures, runs,
                 effects, raceHint, raceSession>>

\* await thread.setState({ sdkSessionId: sessionId }) returns.
RaceStored(r) ==
  /\ racePc[r] = "store"
  /\ stored' = raceSession[r]
  /\ raceWrites' = Append(raceWrites, [run |-> r, id |-> raceSession[r]])
  /\ racePc' = [racePc EXCEPT ![r] = "done"]
  /\ UNCHANGED <<dispatcherVars, assemblyVars, splitVars, digestVars,
                 promptVars, accessVars, handler, inbound, tpc,
                 phase, hint, sessionId, success, caught, tfailures, runs,
                 effects, raceHint, raceSession>>

\* await thread.setState({ sdkSessionId: sessionId }) rejects: nothing is
\* written. The await stands inside runAssistant: in the resumed run (a
\* resume hint, the fallback not yet taken) an error of the process-exit
\* class is caught and the fallback is taken, else the error leaves to the
\* handler's catch block.
RaceStoreFails(r, exited) ==
  /\ racePc[r] = "store"
  /\ racePc' = [racePc EXCEPT ![r] =
                  IF /\ raceHint[r] # ""
                     /\ \A i \in DOMAIN raceWrites :
                          raceWrites[i] # [run |-> r, id |-> ""]
                     /\ exited
                  THEN "clear" ELSE "done"]
  /\ UNCHANGED <<dispatcherVars, turnVars, assemblyVars, splitVars, digestVars,
                 promptVars, raceHint, raceSession, raceWrites>>

\* runAssistant throws before its write (buildPromptFromMessage, the post
\* of the warnings or handleQuery), or the post of the notice of the
\* fallback does: with a resume hint and an error of the process-exit class
\* the fallback is taken, else the error leaves to the handler's catch
\* block.
RaceQueryThrows(r, exited) ==
  /\ racePc[r] \in {"query", "fresh"}
  /\ racePc' = [racePc EXCEPT ![r] =
                  IF racePc[r] = "query" /\ raceHint[r] # "" /\ exited
                  THEN "clear" ELSE "done"]
  /\ UNCHANGED <<dispatcherVars, turnVars, assemblyVars, splitVars, digestVars,
                 promptVars, raceHint, raceSession, raceWrites>>

\* The fallback: await thread.setState({}, { replace: true }), the notice,
\* and runAssistant again with no resume hint.
RaceClearState(r) ==
  /\ racePc[r] = "clear"
  /\ stored' = ""
  /\ raceWrites' = Append(raceWrites, [run |-> r, id |-> ""])
  /\ racePc' = [racePc EXCEPT ![r] = "fresh"]
  /\ UNCHANGED <<dispatcherVars, assemblyVars, splitVars, digestVars,
                 promptVars, accessVars, handler, inbound, tpc,
                 phase, hint, sessionId, success, caught, tfailures, runs,
                 effects, raceHint, raceSession>>

\* await thread.setState({}, { replace: true }) rejects: the error leaves
\* the catch block, the stored state is as it was and the agent does not
\* run again.
RaceClearStateFails(r) ==
  /\ racePc[r] = "clear"
  /\ racePc' = [racePc EXCEPT ![r] = "done"]
  /\ UNCHANGED <<dispatcherVars, turnVars, assemblyVars, splitVars, digestVars,
                 promptVars, raceHint, raceSession, raceWrites>>

NextRace ==
  \E r \in Runs :
    \/ RaceReadState(r)
    \/ RaceReadStateFails(r)
    \/ \E exited \in BOOLEAN : RaceStoreFails(r, exited)
    \/ RaceClearStateFails(r)
    \/ \E id \in {""} \cup SessionIds : RaceQueryReturns(r, id)
    \/ RaceStored(r)
    \/ \E exited \in BOOLEAN : RaceQueryThrows(r, exited)
    \/ RaceClearState(r)

SpecRace == InitRace /\ [][NextRace]_vars

\* ------------------------------------------------- the access check

selectUserAllowlistGlobalOnly(adapterName) == allowlists.userIds

selectUserAllowlist(adapterName) ==
  IF adapterName = "slack" /\ Cardinality(allowlists.userIdsSlack) > 0
  THEN allowlists.userIdsSlack
  ELSE IF adapterName = "telegram"
          /\ Cardinality(allowlists.userIdsTelegram) > 0
  THEN allowlists.userIdsTelegram
  ELSE allowlists.userIds

selectChatAllowlist(adapterName) ==
  IF adapterName = "slack" /\ Cardinality(allowlists.chatIdsSlack) > 0
  THEN allowlists.chatIdsSlack
  ELSE IF adapterName = "telegram"
          /\ Cardinality(allowlists.chatIdsTelegram) > 0
  THEN allowlists.chatIdsTelegram
  ELSE allowlists.chatIds

isUserAllowed ==
  LET allowlist == selectUserAllowlist(access.adapterName)
  IN  IF Cardinality(allowlist) = 0 THEN TRUE
      ELSE access.userId \in allowlist

isChatAllowed ==
  LET allowlist == selectChatAllowlist(access.adapterName)
  IN  IF Cardinality(allowlist) = 0 THEN TRUE
      ELSE access.channelId \in allowlist

isAccessAllowed == isUserAllowed /\ isChatAllowed

\* An allowlist parsed from the environment: unset, or one id; the lists
\* of a platform name another id than the global ones.
UserLists == {{}, {"u1"}}

ChatLists == {{}, {"c1"}}

PlatformUserLists == {{}, {"u2"}}

PlatformChatLists == {{}, {"c2"}}

\* A handler is called with a message: the result of isAccessAllowed is
\* computed from the thread, the author and the six lists.
InitAccess ==
  /\ live = FALSE
  /\ variant \in {"bot", "rina"}
  /\ InitDispatcher
  /\ NoDigest
  /\ NoPrompt
  /\ NoRace
  /\ NoAssembly
  /\ NoSplit
  /\ access \in [adapterName : {"slack", "telegram"}, userId : {"u1", "u2"},
                 channelId : {"c1", "c2"}]
  /\ allowlists \in [userIds : UserLists, chatIds : ChatLists,
                     userIdsSlack : PlatformUserLists,
                     userIdsTelegram : PlatformUserLists,
                     chatIdsSlack : PlatformChatLists,
                     chatIdsTelegram : PlatformChatLists]
  /\ handler \in {"first", "subscribed"}
  /\ inbound \in {m \in [isMe : BOOLEAN, allowed : BOOLEAN, trigger : BOOLEAN] :
                    m.allowed = isAccessAllowed}
  /\ tpc = "receive"
  /\ phase = "plain"
  /\ stored = ""
  /\ hint = ""
  /\ sessionId = ""
  /\ success = FALSE
  /\ caught = NoTurnError
  /\ tfailures = 0
  /\ runs = <<>>
  /\ effects = <<>>

\* The turn in which no operation fails.
NextAccess ==
  \/ Receive
  \/ HistoryFetched
  \/ ReadState
  \/ PromptBuilt
  \/ \E id \in SessionIds : SessionInit(id)
  \/ QueryReturns
  \/ Stored
  \/ Finally

SpecAccess == InitAccess /\ [][NextAccess]_vars

\* ------------------------------------------------- the digest cycle

\* The cap of the seen-guid set.
DEDUP_CAP == 3

\* The most items one fetch returns.
MaxFeed == 2

\* The most digest cycles in flight at a time.
MaxCycles == 2

Guids == 1..(DEDUP_CAP + 2)

\* What fetchAllFeeds resolves to: the guids of the items, which may repeat.
Feeds == UNION {[1..n -> Guids] : n \in 0..MaxFeed}

\* allItems.filter((item) => !seenGuids.has(item.guid))
freshOf(allItems, seen) ==
  SelectSeq(allItems, LAMBDA g : \A i \in DOMAIN seen : seen[i] # g)

\* Set.prototype.add for each fresh item: a guid that is in the set keeps
\* its place.
RECURSIVE addAll(_, _)
addAll(seen, fresh) ==
  IF fresh = <<>> THEN seen
  ELSE addAll(IF \E i \in DOMAIN seen : seen[i] = Head(fresh) THEN seen
              ELSE Append(seen, Head(fresh)),
              Tail(fresh))

\* seenGuids.size - DEDUP_CAP when the set is over the cap, else 0.
toRemove(seen) == IF Len(seen) > DEDUP_CAP THEN Len(seen) - DEDUP_CAP ELSE 0

\* The set after the deletions: iteration is in insertion order.
capSeenKeepsOldest(seen) == SubSeq(seen, 1, Len(seen) - toRemove(seen))

capSeen(seen) == SubSeq(seen, toRemove(seen) + 1, Len(seen))

removedBy(seen) == SubSeq(seen, 1, toRemove(seen))

InitDigest ==
  /\ live = FALSE
  /\ variant = "bot"
  /\ InitDispatcher
  /\ NoDigest
  /\ NoPrompt
  /\ NoRace
  /\ NoTurn
  /\ NoAssembly
  /\ NoSplit

\* A tick of the scheduler calls runDigestCycle, whatever cycles are still
\* in flight: bot.initialize() and fetchAllFeeds are awaited.
StartCycle ==
  /\ dpc.fetching + dpc.curating < MaxCycles
  /\ dpc' = [dpc EXCEPT !.fetching = @ + 1]
  /\ UNCHANGED <<dispatcherVars, turnVars, promptVars, raceVars, assemblyVars,
                 splitVars, seenGuids, evicted>>

\* bot.initialize() or fetchAllFeeds of a cycle rejects: the scheduler's
\* callback catches the error.
FetchFails ==
  /\ dpc.fetching > 0
  /\ dpc' = [dpc EXCEPT !.fetching = @ - 1]
  /\ UNCHANGED <<dispatcherVars, turnVars, promptVars, raceVars, assemblyVars,
                 splitVars, seenGuids, evicted>>

\* fetchAllFeeds of a cycle resolves: the fresh items are marked as seen and
\* the set is capped, in one synchronous block; with no fresh item the cycle
\* ends.
FetchReturns ==
  /\ dpc.fetching > 0
  /\ \E allItems \in Feeds :
       LET fresh == freshOf(allItems, seenGuids)
           added == addAll(seenGuids, fresh)
       IN  IF fresh = <<>>
           THEN /\ dpc' = [dpc EXCEPT !.fetching = @ - 1]
                /\ UNCHANGED <<seenGuids, evicted>>
           ELSE /\ dpc' = [dpc EXCEPT !.fetching = @ - 1,
                                      !.curating = @ + 1]
                /\ seenGuids' = capSeen(added)
                /\ evicted' = removedBy(added)
  /\ UNCHANGED <<dispatcherVars, turnVars, promptVars, raceVars, assemblyVars,
                 splitVars>>

\* curateNews and the post of the digest of a cycle return or throw.
CycleEnds ==
  /\ dpc.curating > 0
  /\ dpc' = [dpc EXCEPT !.curating = @ - 1]
  /\ UNCHANGED <<dispatcherVars, turnVars, promptVars, raceVars, assemblyVars,
                 splitVars, seenGuids, evicted>>

NextDigest == StartCycle \/ FetchFails \/ FetchReturns \/ CycleEnds

SpecDigest == InitDigest /\ [][NextDigest]_vars

\* ------------------------------------------------- the segmenter alone

\* Length of the texts splitLongText is called with.
MaxTextLen == 8

Chars == {"a", "b", " ", "\n"}

Texts == UNION {[1..n -> Chars] : n \in 0..MaxTextLen}

InitSplit ==
  /\ live = FALSE
  /\ variant \in {"bot", "rina"}
  /\ InitDispatcher
  /\ NoDigest
  /\ NoPrompt
  /\ NoRace
  /\ NoTurn
  /\ NoAssembly
  /\ splitInput \in Texts
  /\ splitOutput = <<>>
  /\ NoSplitLoop

\* One call of splitLongText; it returns at least one chunk.
Split ==
  /\ spc = "idle"
  /\ splitOutput = <<>>
  /\ splitOutput' = splitLongText(splitInput)
  /\ UNCHANGED <<dispatcherVars, turnVars, promptVars, raceVars, digestVars, assemblyVars, splitInput, spc,
                 splitRemaining, lastSplitAt>>

NextSplit == Split

SpecSplit == InitSplit /\ [][NextSplit]_vars

\* --------------------------------------- the segmenter, step by step

\* The texts of the step-by-step runs: a letter and the line break, which
\* is the one character the choice of the split offset looks for.
LoopTexts == UNION {[1..n -> {"a", "\n"}] : n \in 0..MaxTextLen}

InitSplitLoop ==
  /\ live = FALSE
  /\ variant = "bot"
  /\ InitDispatcher
  /\ NoDigest
  /\ NoPrompt
  /\ NoRace
  /\ NoTurn
  /\ NoAssembly
  /\ splitInput = <<>>
  /\ splitOutput = <<>>
  /\ spc = "call"
  /\ splitRemaining = <<>>
  /\ lastSplitAt = -1

\* splitLongText is called with a text: let remaining = text.
CallSplit ==
  /\ spc = "call"
  /\ \E text \in LoopTexts :
       /\ splitInput' = text
       /\ splitRemaining' = text
  /\ spc' = "start"
  /\ UNCHANGED <<dispatcherVars, turnVars, promptVars, raceVars, digestVars, assemblyVars, splitOutput,
                 lastSplitAt>>

\* if (text.length <= TELEGRAM_MAX_LENGTH) return [text]
ReturnShort ==
  /\ spc = "start"
  /\ Len(splitInput) <= TELEGRAM_MAX_LENGTH
  /\ splitOutput' = <<splitInput>>
  /\ spc' = "returned"
  /\ UNCHANGED <<dispatcherVars, turnVars, promptVars, raceVars, digestVars, assemblyVars, splitInput,
                 splitRemaining, lastSplitAt>>

\* One iteration of the while loop.
LoopStepAnyBreak ==
  /\ spc \in {"start", "loop"}
  /\ Len(splitRemaining) > TELEGRAM_MAX_LENGTH
  /\ LET slice   == Slice(splitRemaining, 0, TELEGRAM_MAX_LENGTH)
         para    == lastIndexOf(slice, <<"\n", "\n">>)
         line    == IF para < 0 THEN lastIndexOf(slice, <<"\n">>) ELSE para
         splitAt == IF line < 0 THEN TELEGRAM_MAX_LENGTH ELSE line
     IN  /\ lastSplitAt' = splitAt
         /\ splitOutput' =
              Append(splitOutput, trimEnd(Slice(splitRemaining, 0, splitAt)))
         /\ splitRemaining' =
              trimStart(Slice(splitRemaining, splitAt, Len(splitRemaining)))
  /\ spc' = "loop"
  /\ UNCHANGED <<dispatcherVars, turnVars, promptVars, raceVars, digestVars, assemblyVars, splitInput>>

LoopStep ==
  /\ spc \in {"start", "loop"}
  /\ Len(splitRemaining) > TELEGRAM_MAX_LENGTH
  /\ LET slice   == Slice(splitRemaining, 0, TELEGRAM_MAX_LENGTH)
         splitAt == splitOffset(slice)
     IN  /\ lastSplitAt' = splitAt
         /\ splitOutput' =
              Append(splitOutput, trimEnd(Slice(splitRemaining, 0, splitAt)))
         /\ splitRemaining' =
              trimStart(Slice(splitRemaining, splitAt, Len(splitRemaining)))
  /\ spc' = "loop"
  /\ UNCHANGED <<dispatcherVars, turnVars, promptVars, raceVars, digestVars, assemblyVars, splitInput>>

\* The loop condition fails: the remainder is pushed unless it is blank,
\* and chunks is returned.
LoopExit ==
  /\ spc = "loop"
  /\ Len(splitRemaining) <= TELEGRAM_MAX_LENGTH
  /\ splitOutput' = IF Len(trim(splitRemaining)) > 0
                    THEN Append(splitOutput, splitRemaining) ELSE splitOutput
  /\ spc' = "returned"
  /\ UNCHANGED <<dispatcherVars, turnVars, promptVars, raceVars, digestVars, assemblyVars, splitInput,
                 splitRemaining, lastSplitAt>>

NextSplitLoop == CallSplit \/ ReturnShort \/ LoopStep \/ LoopExit

\* The function runs on one thread with nothing to wait for: a step that
\* can be taken is taken.
SpecSplitLoop ==
  InitSplitLoop /\ [][NextSplitLoop]_vars /\ WF_vars(NextSplitLoop)

\* ------------------------------------------------ the history assembler

\* Messages in thread.allMessages.
MaxLog == 3

MAX_INBOUND_ATTACHMENTS == 4

MAX_MEGABYTE == 1048576

MAX_INBOUND_IMAGE_BYTES == 5 * MAX_MEGABYTE

MAX_INBOUND_FILE_BYTES == 10 * MAX_MEGABYTE

SUPPORTED_FILE_MIMES == {"application/pdf", "text/plain"}

\* The MIME types that start with "image/", among those of the model.
ImageMimes == {"image/png"}

FilePostedText ==
  <<"[", "T", "h", "i", "s", " ", "i", "s", " ", "t", "h", "e", " ", "f",
    "i", "l", "e", " ", "y", "o", "u", " ", "j", "u", "s", "t", " ", "p",
    "o", "s", "t", "e", "d", " ", "t", "o", " ", "t", "h", "e", " ", "c",
    "h", "a", "t", ".", "]">>

SeeAttachedText ==
  <<"S", "e", "e", " ", "a", "t", "t", "a", "c", "h", "e", "d", " ", "f",
    "i", "l", "e", "(", "s", ")", ".">>

EmptyMessageText ==
  <<"(", "e", "m", "p", "t", "y", " ", "m", "e", "s", "s", "a", "g", "e",
    ")">>

\* msg.author: the bot itself, or another participant, whose userName,
\* fullName and userId are empty (authorPrefix then labels nothing).
Authors ==
  {[isMe |-> TRUE, userName |-> <<>>, userId |-> <<>>],
   [isMe |-> FALSE, userName |-> <<>>, userId |-> <<>>]}

\* An attachment: its type and mimeType ("" when undefined), the MIME type
\* inferMimeTypeFromUrl finds for its url ("" for null), what
\* readAttachmentData returns (data, "" standing for null, and its length in
\* bytes), and whether readAttachmentData throws instead.
attachmentOf(type, mimeType, urlMime, data, length, throws) ==
  [type |-> type, mimeType |-> mimeType, urlMime |-> urlMime, data |-> data,
   length |-> length, throws |-> throws]

\* msg.attachments: none, an image that can be read, or an image whose
\* data cannot be read.
AttachmentLists ==
  {<<>>} \cup {<<attachmentOf("image", "image/png", "", d,
                              IF d = "" THEN 0 ELSE 1, FALSE)>> :
                 d \in {"", "d"}}

MessageTexts == {<<" ">>, <<"a">>}

\* The stored messages: ids are the positions in the log, and the id
\* MaxLog + 1 is the id of a triggering message that is not stored.
Logs ==
  UNION {[1..n -> [author : Authors, text : MessageTexts,
                   attachments : AttachmentLists]] : n \in 0..MaxLog}

stamped(log) ==
  [i \in DOMAIN log |->
     [id |-> i, author |-> log[i].author, text |-> log[i].text,
      attachments |-> log[i].attachments]]

authorPrefix(author) ==
  LET name == author.userName
      id   == author.userId
  IN  IF author.isMe THEN <<>>
      ELSE IF name # <<>> /\ id # <<>>
      THEN <<"[", "u", "s", "e", "r", ":", " ", "@">> \o name \o <<" ", "(">>
             \o id \o <<")", "]", " ">>
      ELSE IF id # <<>>
      THEN <<"[", "u", "s", "e", "r", ":", " ">> \o id \o <<"]", " ">>
      ELSE IF name # <<>>
      THEN <<"[", "u", "s", "e", "r", ":", " ", "@">> \o name \o <<"]", " ">>
      ELSE <<>>

isSupportedMime(mime) ==
  mime # "" /\ (mime \in ImageMimes \/ mime \in SUPPORTED_FILE_MIMES)

\* Content parts and contents: a content is a string or an array of parts.
textPart(t) == [type |-> "text", text |-> t, data |-> ""]

imagePart(d) == [type |-> "image", text |-> <<>>, data |-> d]

filePart(d) == [type |-> "file", text |-> <<>>, data |-> d]

str(t) == [isString |-> TRUE, text |-> t, parts |-> <<>>]

arr(ps) == [isString |-> FALSE, text |-> <<>>, parts |-> ps]

\* The size tests left out.
attachmentToMediaPartAnySize(attachment) ==
  IF attachment.data = "" THEN <<>>
  ELSE IF attachment.mimeType \in ImageMimes
  THEN <<imagePart(attachment.data)>>
  ELSE IF attachment.mimeType \in SUPPORTED_FILE_MIMES
  THEN <<filePart(attachment.data)>>
  ELSE IF attachment.urlMime \in ImageMimes
  THEN <<imagePart(attachment.data)>>
  ELSE <<>>

\* What attachmentToMediaPart returns when readAttachmentData does not
\* throw; null (no data, too large, or a type that is not supported) is
\* the empty sequence.
attachmentToMediaPart(attachment) ==
  IF attachment.data = "" THEN <<>>
  ELSE IF attachment.mimeType \in ImageMimes
  THEN (IF attachment.length > MAX_INBOUND_IMAGE_BYTES THEN <<>>
        ELSE <<imagePart(attachment.data)>>)
  ELSE IF attachment.mimeType \in SUPPORTED_FILE_MIMES
  THEN (IF attachment.length > MAX_INBOUND_FILE_BYTES THEN <<>>
        ELSE <<filePart(attachment.data)>>)
  ELSE IF attachment.urlMime \in ImageMimes
  THEN (IF attachment.length > MAX_INBOUND_IMAGE_BYTES THEN <<>>
        ELSE <<imagePart(attachment.data)>>)
  ELSE <<>>

\* The loop over the candidates: an attachment whose read throws is skipped
\* by the catch.
RECURSIVE mediaPartsOf(_)
mediaPartsOf(candidates) ==
  IF candidates = <<>> THEN <<>>
  ELSE (IF Head(candidates).throws THEN <<>>
        ELSE attachmentToMediaPart(Head(candidates)))
       \o mediaPartsOf(Tail(candidates))

extractMediaParts(message) ==
  LET candidates ==
        SelectSeq(message.attachments,
                  LAMBDA a : isSupportedMime(a.mimeType) \/ a.type = "image")
  IN  mediaPartsOf(Slice(candidates, 0, MAX_INBOUND_ATTACHMENTS))

\* One iteration of the for await loop: the entries it pushes to history.
pushedWithCurrent(msg, currentId) ==
  LET text        == trim(msg.text)
      media       == extractMediaParts(msg)
      labeledText == trim(authorPrefix(msg.author) \o text)
  IN  IF text = <<>> /\ msg.attachments = <<>> THEN <<>>
      ELSE IF msg.author.isMe
      THEN (IF text # <<>>
            THEN <<[role |-> "assistant", content |-> str(text)]>> ELSE <<>>)
           \o (IF media # <<>>
               THEN <<[role |-> "user",
                       content |-> arr(<<textPart(FilePostedText)>> \o media)]>>
               ELSE <<>>)
      ELSE IF media # <<>>
      THEN <<[role |-> "user",
              content |-> arr(<<textPart(IF labeledText # <<>> THEN labeledText
                                         ELSE SeeAttachedText)>> \o media)]>>
      ELSE <<[role |-> "user",
              content |-> str(IF labeledText # <<>> THEN labeledText
                              ELSE EmptyMessageText)]>>

\* The synthetic user turn pushed before the assistant turn.
pushedSyntheticFirst(msg, currentId) ==
  LET text        == trim(msg.text)
      media       == extractMediaParts(msg)
      labeledText == trim(authorPrefix(msg.author) \o text)
  IN  IF msg.id = currentId THEN <<>>
      ELSE IF text = <<>> /\ msg.attachments = <<>> THEN <<>>
      ELSE IF msg.author.isMe
      THEN (IF media # <<>>
            THEN <<[role |-> "user",
                    content |-> arr(<<textPart(FilePostedText)>> \o media)]>>
            ELSE <<>>)
           \o (IF text # <<>>
               THEN <<[role |-> "assistant", content |-> str(text)]>> ELSE <<>>)
      ELSE IF media # <<>>
      THEN <<[role |-> "user",
              content |-> arr(<<textPart(IF labeledText # <<>> THEN labeledText
                                         ELSE SeeAttachedText)>> \o media)]>>
      ELSE <<[role |-> "user",
              content |-> str(IF labeledText # <<>> THEN labeledText
                              ELSE EmptyMessageText)]>>

pushed(msg, currentId) ==
  LET text        == trim(msg.text)
      media       == extractMediaParts(msg)
      labeledText == trim(authorPrefix(msg.author) \o text)
  IN  IF msg.id = currentId THEN <<>>
      ELSE IF text = <<>> /\ msg.attachments = <<>> THEN <<>>
      ELSE IF msg.author.isMe
      THEN (IF text # <<>>
            THEN <<[role |-> "assistant", content |-> str(text)]>> ELSE <<>>)
           \o (IF media # <<>>
               THEN <<[role |-> "user",
                       content |-> arr(<<textPart(FilePostedText)>> \o media)]>>
               ELSE <<>>)
      ELSE IF media # <<>>
      THEN <<[role |-> "user",
              content |-> arr(<<textPart(IF labeledText # <<>> THEN labeledText
                                         ELSE SeeAttachedText)>> \o media)]>>
      ELSE <<[role |-> "user",
              content |-> str(IF labeledText # <<>> THEN labeledText
                              ELSE EmptyMessageText)]>>

\* typeof content === "string" ? [{ type: "text", text: content }] : content
contentParts(content) ==
  IF content.isString THEN <<textPart(content.text)>> ELSE content.parts

\* typeof content === "string" ? content : ""
textOf(content) == IF content.isString THEN content.text ELSE <<>>

\* [prevText, curText].filter(Boolean).join("\n\n")
joinTexts(prevText, curText) ==
  IF prevText = <<>> THEN curText
  ELSE IF curText = <<>> THEN prevText
  ELSE prevText \o <<"\n", "\n">> \o curText

\* One iteration of the merge loop.
mergeIntoUsersOnly(acc, msg) ==
  IF acc # <<>> /\ Last(acc).role = msg.role /\ Last(acc).role = "user"
  THEN [acc EXCEPT ![Len(acc)].content =
          arr(contentParts(Last(acc).content) \o contentParts(msg.content))]
  ELSE Append(acc, msg)

\* The user branch concatenating the current parts before the previous ones.
mergeIntoCurrentFirst(acc, msg) ==
  IF acc # <<>> /\ Last(acc).role = msg.role /\ Last(acc).role = "user"
  THEN [acc EXCEPT ![Len(acc)].content =
          arr(contentParts(msg.content) \o contentParts(Last(acc).content))]
  ELSE IF acc # <<>> /\ Last(acc).role = msg.role
          /\ Last(acc).role = "assistant"
  THEN [acc EXCEPT ![Len(acc)].content =
          str(joinTexts(textOf(Last(acc).content), textOf(msg.content)))]
  ELSE Append(acc, msg)

mergeInto(acc, msg) ==
  IF acc # <<>> /\ Last(acc).role = msg.role /\ Last(acc).role = "user"
  THEN [acc EXCEPT ![Len(acc)].content =
          arr(contentParts(Last(acc).content) \o contentParts(msg.content))]
  ELSE IF acc # <<>> /\ Last(acc).role = msg.role
          /\ Last(acc).role = "assistant"
  THEN [acc EXCEPT ![Len(acc)].content =
          str(joinTexts(textOf(Last(acc).content), textOf(msg.content)))]
  ELSE Append(acc, msg)

RECURSIVE mergeFrom(_, _)
mergeFrom(entries, acc) ==
  IF entries = <<>> THEN acc
  ELSE mergeFrom(Tail(entries), mergeInto(acc, Head(entries)))

RECURSIVE collect(_, _)
collect(messages, currentId) ==
  IF messages = <<>> THEN <<>>
  ELSE pushed(Head(messages), currentId) \o collect(Tail(messages), currentId)

convertThreadHistory(messages, currentId) ==
  mergeFrom(collect(messages, currentId), <<>>)

InitHistory ==
  /\ live = FALSE
  /\ variant = "rina"
  /\ InitDispatcher
  /\ NoDigest
  /\ NoPrompt
  /\ NoRace
  /\ NoTurn
  /\ NoSplit
  /\ \E log \in Logs : allMessages = stamped(log)
  /\ currentMessageId \in 1..(MaxLog + 1)
  /\ hpc = "collect"
  /\ cursor = 0
  /\ history = <<>>
  /\ merged = <<>>
  /\ queryMessages = <<>>

\* The entries of one iteration that are pushed before await
\* extractMediaParts(msg): the assistant entry of a message of the bot.
beforeRead(entries) ==
  IF entries # <<>> /\ Head(entries).role = "assistant"
  THEN <<Head(entries)>> ELSE <<>>

\* The for await loop takes the next stored message. A message that is not
\* skipped and has an attachment extractMediaParts reads makes the loop
\* wait for the platform's fetchData, with what was pushed before the
\* await; any other message is done in this step.
Collect ==
  /\ hpc = "collect"
  /\ cursor < Len(allMessages)
  /\ cursor' = cursor + 1
  /\ LET msg     == allMessages[cursor + 1]
         entries == pushed(msg, currentMessageId)
         reads   == /\ msg.id # currentMessageId
                    /\ ~(trim(msg.text) = <<>> /\ msg.attachments = <<>>)
                    /\ \E i \in DOMAIN msg.attachments :
                         \/ isSupportedMime(msg.attachments[i].mimeType)
                         \/ msg.attachments[i].type = "image"
     IN  IF reads
         THEN /\ history' = history \o beforeRead(entries)
              /\ hpc' = "media"
         ELSE /\ history' = history \o entries
              /\ hpc' = hpc
  /\ UNCHANGED <<dispatcherVars, turnVars, promptVars, raceVars, digestVars, splitVars, allMessages,
                 currentMessageId, merged, queryMessages>>

\* await extractMediaParts(msg) returns: the rest of the iteration.
ReadMedia ==
  /\ hpc = "media"
  /\ hpc' = "collect"
  /\ LET entries == pushed(allMessages[cursor], currentMessageId)
     IN  history' = history \o SubSeq(entries, Len(beforeRead(entries)) + 1,
                                      Len(entries))
  /\ UNCHANGED <<dispatcherVars, turnVars, promptVars, raceVars, digestVars, splitVars, allMessages,
                 currentMessageId, cursor, merged, queryMessages>>

\* The iterator of thread.allMessages rejects: the error leaves
\* convertThreadHistory, which returns nothing.
CollectFails ==
  /\ hpc = "collect"
  /\ hpc' = "failed"
  /\ UNCHANGED <<dispatcherVars, turnVars, promptVars, raceVars, digestVars, splitVars, allMessages,
                 currentMessageId, cursor, history, merged, queryMessages>>

\* The log is exhausted: the merge loop runs and the function returns.
MergeAndReturn ==
  /\ hpc = "collect"
  /\ cursor = Len(allMessages)
  /\ merged' = mergeFrom(history, <<>>)
  /\ hpc' = "returned"
  /\ UNCHANGED <<dispatcherVars, turnVars, promptVars, raceVars, digestVars, splitVars, allMessages,
                 currentMessageId, cursor, history, queryMessages>>

NextHistory == Collect \/ ReadMedia \/ CollectFails \/ MergeAndReturn

SpecHistory == InitHistory /\ [][NextHistory]_vars

\* ------------------------------------ one stored message with attachments

\* Attachments of one stored message.
MaxAttachments == 5

\* An image at the size limit and one byte above it, a PDF above the image
\* limit and one byte above the file limit, a video, an image whose read
\* returns nothing, an image whose read throws, and an attachment of type
\* image with no mimeType whose url ends in .png.
AttachmentKinds ==
  {attachmentOf("image", "image/png", "", "i", MAX_INBOUND_IMAGE_BYTES, FALSE),
   attachmentOf("image", "image/png", "", "I", MAX_INBOUND_IMAGE_BYTES + 1,
                FALSE),
   attachmentOf("file", "application/pdf", "", "f", MAX_INBOUND_FILE_BYTES,
                FALSE),
   attachmentOf("file", "application/pdf", "", "F", MAX_INBOUND_FILE_BYTES + 1,
                FALSE),
   attachmentOf("file", "video/mp4", "", "v", 1, FALSE),
   attachmentOf("image", "image/png", "", "", 0, FALSE),
   attachmentOf("image", "image/png", "", "", 0, TRUE),
   attachmentOf("image", "", "image/png", "u", 1, FALSE)}

InitMedia ==
  /\ live = FALSE
  /\ variant = "rina"
  /\ InitDispatcher
  /\ NoDigest
  /\ NoPrompt
  /\ NoRace
  /\ NoTurn
  /\ NoSplit
  /\ \E n \in 0..MaxAttachments :
       \E atts \in [1..n -> AttachmentKinds] :
         \E author \in Authors :
           allMessages =
             stamped(<<[author |-> author, text |-> <<"a">>,
                        attachments |-> atts]>>)
  /\ currentMessageId = 2
  /\ hpc = "collect"
  /\ cursor = 0
  /\ history = <<>>
  /\ merged = <<>>
  /\ queryMessages = <<>>

SpecMedia == InitMedia /\ [][NextHistory]_vars

\* --------------------------------------- the prompt of the triggering message

\* Attachments of the triggering message.
MaxTriggerAttachments == 6

\* An image at the size limit and one byte above it, an image whose read
\* returns nothing, an image whose read throws, and a video.
TriggerKinds ==
  {attachmentOf("image", "image/png", "", "i", MAX_INBOUND_IMAGE_BYTES, FALSE),
   attachmentOf("image", "image/png", "", "I", MAX_INBOUND_IMAGE_BYTES + 1,
                FALSE),
   attachmentOf("image", "image/png", "", "", 0, FALSE),
   attachmentOf("image", "image/png", "", "", 0, TRUE),
   attachmentOf("file", "video/mp4", "", "v", 1, FALSE)}

\* `#${index + 1}` for the indexes below the cap.
Ordinals == <<"1", "2", "3", "4">>

\* The warnings, shortened to a letter and the number they name:
\* "Couldn't read ... #n ...; skipped it.", "Image #n is larger than 5MB;
\* skipped it.", "Couldn't process ... #n; skipped it." and "Only the first
\* 4 ... were sent ...".
readWarning(n) == <<"r", Ordinals[n]>>

largeWarning(n) == <<"l", Ordinals[n]>>

processWarning(n) == <<"p", Ordinals[n]>>

capWarning == <<"o", Ordinals[MAX_INBOUND_ATTACHMENTS]>>

\* One iteration of the loop of buildPromptFromMessage: the part or the
\* warning it pushes. The bot variant reads the image and tests its size
\* itself; the rina variant calls attachmentToMediaPart.
iteration(v, attachment, n) ==
  IF attachment.throws
  THEN [parts |-> <<>>, warnings |-> <<processWarning(n)>>]
  ELSE IF v = "bot"
  THEN (IF attachment.data = ""
        THEN [parts |-> <<>>, warnings |-> <<readWarning(n)>>]
        ELSE IF attachment.length > MAX_INBOUND_IMAGE_BYTES
        THEN [parts |-> <<>>, warnings |-> <<largeWarning(n)>>]
        ELSE [parts |-> <<imagePart(attachment.data)>>, warnings |-> <<>>])
  ELSE (IF attachmentToMediaPart(attachment) = <<>>
        THEN [parts |-> <<>>, warnings |-> <<readWarning(n)>>]
        ELSE [parts |-> attachmentToMediaPart(attachment), warnings |-> <<>>])

RECURSIVE iterations(_, _, _)
iterations(v, candidates, n) ==
  IF candidates = <<>> THEN [parts |-> <<>>, warnings |-> <<>>]
  ELSE LET first == iteration(v, Head(candidates), n)
           later == iterations(v, Tail(candidates), n + 1)
       IN  [parts |-> first.parts \o later.parts,
            warnings |-> first.warnings \o later.warnings]

\* The cap warning left out.
buildPromptFromMessageNoCapWarning(v, message) ==
  LET candidates ==
        SelectSeq(message.attachments,
                  LAMBDA a : IF v = "bot" THEN a.type = "image"
                             ELSE isSupportedMime(a.mimeType)
                                    \/ a.type = "image")
      looped ==
        iterations(v, Slice(candidates, 0, MAX_INBOUND_ATTACHMENTS), 1)
  IN  IF candidates = <<>>
      THEN [content |-> str(trim(message.text)), warnings |-> <<>>]
      ELSE [content |-> IF looped.parts = <<>> THEN str(trim(message.text))
                        ELSE arr(<<textPart(trim(message.text))>>
                                   \o looped.parts),
            warnings |-> looped.warnings]

\* buildPromptFromMessage of a message whose text is not blank and whose
\* author is not labelled; the bot variant's MAX_INBOUND_IMAGES is 4 as well.
buildPromptFromMessage(v, message) ==
  LET candidates ==
        SelectSeq(message.attachments,
                  LAMBDA a : IF v = "bot" THEN a.type = "image"
                             ELSE isSupportedMime(a.mimeType)
                                    \/ a.type = "image")
      looped ==
        iterations(v, Slice(candidates, 0, MAX_INBOUND_ATTACHMENTS), 1)
  IN  IF candidates = <<>>
      THEN [content |-> str(trim(message.text)), warnings |-> <<>>]
      ELSE [content |-> IF looped.parts = <<>> THEN str(trim(message.text))
                        ELSE arr(<<textPart(trim(message.text))>>
                                   \o looped.parts),
            warnings |-> looped.warnings
                           \o (IF Len(candidates) > MAX_INBOUND_ATTACHMENTS
                               THEN <<capWarning>> ELSE <<>>)]

RECURSIVE joinLines(_)
joinLines(lines) ==
  IF lines = <<>> THEN <<>>
  ELSE IF Len(lines) = 1 THEN Head(lines)
  ELSE Head(lines) \o <<"\n">> \o joinLines(Tail(lines))

\* warnings.map((w) => `> ${w}`).join("\n")
noticeOf(warnings) ==
  joinLines([i \in DOMAIN warnings |-> <<">", " ">> \o warnings[i]])

InitPrompt ==
  /\ live = FALSE
  /\ variant \in {"bot", "rina"}
  /\ InitDispatcher
  /\ NoDigest
  /\ NoRace
  /\ NoTurn
  /\ NoAssembly
  /\ NoSplit
  /\ \E n \in 0..MaxTriggerAttachments :
       \E atts \in [1..n -> TriggerKinds] :
         promptMessage = [text |-> <<"q">>, attachments |-> atts]
  /\ promptResult = [content |-> <<>>, warnings |-> <<>>]
  /\ ppc = "build"
  /\ promptPosts = <<>>

\* runAssistant: buildPromptFromMessage returns; with warnings the notice is
\* posted, without them handleQuery is called.
BuildPrompt ==
  /\ ppc = "build"
  /\ promptResult' = buildPromptFromMessage(variant, promptMessage)
  /\ ppc' = IF promptResult'.warnings # <<>> THEN "post" ELSE "query"
  /\ UNCHANGED <<dispatcherVars, turnVars, raceVars, digestVars, assemblyVars,
                 splitVars, promptMessage, promptPosts>>

\* The post of the notice returns and handleQuery is called.
WarningsPosted ==
  /\ ppc = "post"
  /\ promptPosts' = Append(promptPosts, noticeOf(promptResult.warnings))
  /\ ppc' = "query"
  /\ UNCHANGED <<dispatcherVars, turnVars, raceVars, digestVars, assemblyVars,
                 splitVars, promptMessage, promptResult>>

\* The post of the notice rejects: the error leaves runAssistant before
\* handleQuery is called.
WarningsPostFails ==
  /\ ppc = "post"
  /\ ppc' = "failed"
  /\ UNCHANGED <<dispatcherVars, turnVars, raceVars, digestVars, assemblyVars,
                 splitVars, promptMessage, promptResult, promptPosts>>

NextPrompt == BuildPrompt \/ WarningsPosted \/ WarningsPostFails

SpecPrompt == InitPrompt /\ [][NextPrompt]_vars

\* ------------------------------------------- the messages of handleQuery

\* opts.prelude: undefined (the empty sequence) when the thread has no
\* digest context, else what buildDigestContextPrelude returns.
Preludes == {<<>>, <<"d">>}

\* The content buildPromptFromMessage made of the triggering message.
PromptContent == str(<<"q">>)

\* const messages = [...(opts.history ?? [])]; the prelude is pushed when
\* it is truthy, then the current user message.
buildMessages(hist, prelude, content) ==
  hist
    \o (IF prelude # <<>> THEN <<[role |-> "user", content |-> str(prelude)]>>
        ELSE <<>>)
    \o <<[role |-> "user", content |-> content]>>

\* handleSubscribedMessage has the history and the digest context, and
\* runAssistant calls handleQuery with them.
HandleQuery(prelude) ==
  /\ hpc = "returned"
  /\ hpc' = "queried"
  /\ queryMessages' = buildMessages(merged, prelude, PromptContent)
  /\ UNCHANGED <<dispatcherVars, turnVars, promptVars, raceVars, digestVars, splitVars, allMessages,
                 currentMessageId, cursor, history, merged>>

NextMessages ==
  \/ Collect
  \/ ReadMedia
  \/ CollectFails
  \/ MergeAndReturn
  \/ \E prelude \in Preludes : HandleQuery(prelude)

SpecMessages == InitHistory /\ [][NextMessages]_vars

\* ------------------------------------------------------ history operators

InFlightRelays == {p \in DOMAIN relays : relays[p].status = "flight"}

\* thread.post operations begun and not yet settled.
InFlight == Cardinality(InFlightRelays) + (IF pwr = "inflight" THEN 1 ELSE 0)

\* The texts of the postWithRetry calls made for segment s, in call order.
RECURSIVE madeFrom(_, _)
madeFrom(s, i) ==
  IF i > Len(calls) THEN <<>>
  ELSE IF calls[i].seg = s /\ calls[i].kind = "text"
       THEN <<calls[i].text>> \o madeFrom(s, i + 1)
       ELSE madeFrom(s, i + 1)

made(s) == madeFrom(s, 1)

\* Relay posts are begun by TextStart alone: the post of segment s is the
\* one begun by the event that opened s.
relayOf(s) == CHOOSE p \in DOMAIN relays : relays[p].ev = segs[s].start

\* The text of segment s has reached the platform, whole.
Reached(s) ==
  IF live
  THEN relays[relayOf(s)].status = "ok"
       /\ relays[relayOf(s)].recv = relays[relayOf(s)].pushed
  ELSE made(s) = partsOf(segs[s].text)
       /\ \A i \in DOMAIN calls : calls[i].seg = s => calls[i].result = "ok"

\* A TextStart arrived while a segment was open.
Overlapped == \E s \in DOMAIN segs : segs[s].endedBy = "TextStart"

\* Every delivery that has an originating event, with the arrival position
\* of that event and the position of its thread.post among the posts begun:
\* TextStart for a segment's relay post and for its buffered chunks,
\* ToolInvocationStart for a notice.
Deliveries ==
  {[origin |-> relays[p].ev, ord |-> relays[p].ord] : p \in DOMAIN relays}
  \cup
  {[origin |-> calls[i].ev, ord |-> calls[i].ord] :
     i \in {j \in DOMAIN calls : calls[j].kind = "notice"}}
  \cup
  {[origin |-> segs[calls[i].seg].start, ord |-> calls[i].ord] :
     i \in {j \in DOMAIN calls : calls[j].kind = "text" /\ calls[j].seg # 0}}

\* The calls of postWithRetry made for segment s.
callsOf(s) == {i \in DOMAIN calls : calls[i].kind = "text" /\ calls[i].seg = s}

\* ------------------------------------------------------------------ claims

\* C1: within one relay segment the consumer of the segment's post receives
\* every pushed fragment exactly once and in push order: what a post has
\* received is at every moment a prefix of what was pushed for its segment
\* (nothing dropped, duplicated, reordered or taken from another segment),
\* and a completed post has received all of it.
RelayDeliversPushedInOrder ==
  \A p \in DOMAIN relays :
    /\ IsPrefix(relays[p].recv, relays[p].pushed)
    /\ relays[p].status = "ok" => relays[p].recv = relays[p].pushed

\* C2: on a live-streaming platform no two thread.post operations of one
\* dispatcher run are in flight at once.
OnePostInFlight == live => InFlight <= 1

\* C3: the lazy sequence of a relay post terminates if and only if its
\* segment has been closed: a sequence that has terminated belongs to a
\* closed segment and has handed over every fragment pushed for it, and
\* once close has set done the consumer of the awaited post is not left
\* suspended (so the producer's wait on the post can return).
RelayTerminatesIffClosed ==
  /\ \A p \in DOMAIN relays :
       relays[p].cons = "finished" =>
         relays[p].closed /\ Len(relays[p].recv) = Len(relays[p].pushed)
  /\ pc \in {"close", "closeEnd"} => relays[currentPost].cons # "suspended"

\* C4: notices and segments are posted in the arrival order of the events
\* that originate them: a delivery whose originating event arrived earlier
\* is posted earlier.
DeliveriesInArrivalOrder ==
  \A x \in Deliveries : \A y \in Deliveries :
    x.origin < y.origin => x.ord < y.ord

\* C5: one postWithRetry call makes attempts until the first success, the
\* first non-retryable failure or the 4th attempt: every failure before the
\* last attempt was retryable, a retryable failure is followed by a retry
\* exactly while fewer than 4 attempts were made, a call that raised made 4
\* attempts or failed non-retryably and raised its last attempt's failure,
\* and a call that succeeded or raised makes no further attempt.
RetryBudget ==
  \A i \in DOMAIN calls :
    LET c == calls[i]
        k == Len(c.outs)
    IN  /\ c.n <= Len(RETRY_DELAYS_MS) + 1
        /\ k \in {c.n - 1, c.n}
        /\ \A j \in 1..(k - 1) : c.outs[j] = "retryable"
        /\ c.slept = SubSeq(RETRY_DELAYS_MS, 1, c.n - 1)
        /\ c.result = "ok" => k = c.n /\ c.outs[k] = "ok"
        /\ c.result = "err" =>
             /\ k = c.n
             /\ c.outs[k] \in {"retryable", "fatal"}
             /\ c.outs[k] = "retryable" => c.n = Len(RETRY_DELAYS_MS) + 1
             /\ i = Len(calls) /\ pc = "failed" /\ thrown.src = "call"
             /\ thrown.error = lastError
        /\ c.result = "pending" =>
             /\ i = Len(calls)
             /\ k = c.n - 1 => pwr = "inflight"
             /\ k = c.n => /\ pwr = "sleeping"
                           /\ c.outs[k] = "retryable"
                           /\ c.n <= Len(RETRY_DELAYS_MS)
        /\ (i = Len(calls) /\ c.result # "pending") => pwr = "idle"

\* C5, its case: a call that met a retryable failure on each of 4 attempts
\* and then raised.
RetryBudgetExhausted ==
  /\ calls # <<>>
  /\ Last(calls).result = "err"
  /\ Last(calls).n = Len(RETRY_DELAYS_MS) + 1
  /\ Last(calls).outs = <<"retryable", "retryable", "retryable", "retryable">>
  /\ Last(calls).slept = RETRY_DELAYS_MS

\* C6: the post of a live-streamed segment is retried on a retryable
\* transient network error: no dispatcher run is aborted by the first
\* failure of a relay post when that failure is retryable.
RelayPostIsRetried ==
  thrown.src = "relay" => ~isRetryableNetworkError(thrown.error)

\* The signatures as C7 words them: a connection-timeout code or a
\* connection-reset code wherever the error carries a code, or a message with
\* a network-error or timeout indication.  The NETWORK_ERROR code is counted
\* as a network-error indication.
ClaimedSignature(e) ==
  /\ e.isError
  /\ \/ "UND_ERR_CONNECT_TIMEOUT" \in {e.code, e.causeCode, e.nestedCode}
     \/ "ECONNRESET" \in {e.code, e.causeCode, e.nestedCode}
     \/ e.code = "NETWORK_ERROR"
     \/ e.message \in {MsgNetworkError, MsgConnectTimeout, MsgRequestTimeout}

\* C7: a failed post is retried (budget permitting) if and only if the
\* error carries a connection-timeout code, a connection-reset code, or a
\* message with a network-error or timeout indication; every other failure
\* is raised after that attempt.
RetryableIffClaimedSignature ==
  /\ pwr = "sleeping" => ClaimedSignature(lastError)
  /\ pc = "failed" =>
       /\ thrown.error = lastError
       /\ ClaimedSignature(lastError) => Last(calls).n = Len(RETRY_DELAYS_MS) + 1

\* C8: a TextStart that arrives while a segment is open closes that segment
\* first: when the dispatcher returns, the text of every segment that was
\* ended by a TextStart has reached the platform whole and its post has
\* completed.
OverlappingTextStartClosesSegment ==
  pc = "returned" =>
    \A s \in DOMAIN segs : segs[s].endedBy = "TextStart" => Reached(s)

\* C9: when the dispatcher returns normally no post is in flight, a segment
\* that was open at the end of the stream has been delivered by the close
\* logic, and a segment closed by TextEnd has been delivered once, not again
\* by the end-of-stream step.
ReturnLeavesNothingPending ==
  pc = "returned" =>
    /\ InFlight = 0
    /\ openSeg = 0
    /\ \A s \in DOMAIN segs :
         segs[s].endedBy \in {"TextEnd", "EndOfStream"} =>
           /\ Reached(s)
           /\ Cardinality({p \in DOMAIN relays : relays[p].ev = segs[s].start})
                = (IF live THEN 1 ELSE 0)

\* C10: on a buffering platform the posts made for a segment closed by
\* TextEnd are the chunks splitLongText makes of the segment's concatenated
\* deltas, one postWithRetry call per chunk, in chunk order, each call
\* completed before the next is made; a blank segment makes no post and a
\* segment no longer than the limit makes one post, of its whole text.
BufferedSegmentPostsItsChunks ==
  ~live =>
    \A s \in DOMAIN segs :
      segs[s].endedBy = "TextEnd" =>
        LET text  == segs[s].text
            parts == partsOf(text)
        IN  /\ IsPrefix(made(s), parts)
            /\ \A i \in callsOf(s) : \A j \in callsOf(s) :
                 i < j => /\ calls[i].result = "ok"
                          /\ \A k \in i..j : k \in callsOf(s)
            /\ IsBlank(text) => parts = <<>>
            /\ (~IsBlank(text) /\ Len(text) <= TELEGRAM_MAX_LENGTH) =>
                 parts = <<text>>
            /\ IF segs[s].delivered
               THEN /\ made(s) = parts
                    /\ \A i \in callsOf(s) : calls[i].result = "ok"
               ELSE /\ pc \in {"post", "failed"}
                    /\ made(s) # <<>>
                    /\ Last(calls).seg = s
                    /\ Last(calls).result # "ok"

\* C10, its case: a buffered segment of two deltas, "ab\n" then "ab\ncd",
\* closed by TextEnd: their concatenation is longer than the limit and was
\* delivered in three posts, "ab", "ab" and "cd".
BufferedSegmentOfTwoDeltas ==
  /\ ~live
  /\ \E s \in DOMAIN segs :
       /\ segs[s].endedBy = "TextEnd"
       /\ segs[s].delivered
       /\ segs[s].text = <<"a", "b", "\n">> \o <<"a", "b", "\n", "c", "d">>
       /\ made(s) = <<<<"a", "b">>, <<"a", "b">>, <<"c", "d">>>>

\* The dispatcher has been left by a failure that escaped postWithRetry.
Aborted == calls # <<>> /\ Last(calls).result = "err"

\* C11: a delivery failure that escapes postWithRetry leaves the dispatcher
\* as an exception, and from then on, for as long as the process lives, the
\* run takes no further event, begins no further post (the remaining chunks
\* of the segment included) and makes no further attempt; the posts that
\* succeeded stay as they are.
EscapedFailureAborts ==
  /\ [](Aborted => /\ pc \in {"failed", "exited"}
                   /\ pc = "failed" =>
                        thrown = [src |-> "call", error |-> lastError]
                   /\ pwr = "idle")
  /\ [][Aborted => /\ pc' \in {"failed", "exited"}
                   /\ nEvents' = nEvents
                   /\ calls' = calls
                   /\ sendQ' = sendQ
                   /\ Len(relays') = Len(relays)
                   /\ \A p \in DOMAIN relays :
                        relays[p].status = "ok" => relays'[p] = relays[p]]_vars

\* C11, its case: the first chunk of a two-chunk segment failed; the second
\* chunk is still unposted.
AbortedBeforeLastChunk ==
  /\ Aborted
  /\ Len(sendQ) = 2
  /\ Len(calls) = 1
  /\ Last(calls).seg # 0

\* The number of entries of the turn's history that equal e.
Count(e) == Cardinality({i \in DOMAIN effects : effects[i] = e})

\* The processing indicator was set for the inbound message.
Started == Count(effect("markStart", "")) > 0

\* The handler has returned or has been left by an exception.
TurnOver == tpc \in {"done", "escaped"}

\* Attempts to post the generic failure notice.
FailureNotices ==
  Count(effect("post", "failureNotice")) + Count(effect("postFailed", "failureNotice"))

\* C12: for every message whose processing indicator was set, when the
\* handler is over exactly one of mark-complete and clear-indicator has run,
\* mark-complete only on success; a turn that did not succeed posted the
\* generic failure notice exactly once, cleared the indicator and started no
\* run after the notice.
HandlerSettlesEveryTurn ==
  (TurnOver /\ Started) =>
    /\ Count(effect("markComplete", "")) + Count(effect("clearIndicator", "")) = 1
    /\ Count(effect("markComplete", "")) = 1 <=> success
    /\ FailureNotices = (IF success THEN 0 ELSE 1)
    /\ \A i \in DOMAIN effects : \A j \in DOMAIN effects :
         (effects[i].arg = "failureNotice" /\ effects[j].op = "run") => j < i

\* The fatal class, spelled out: an Error whose message tells that the
\* agent process exited or could not be spawned.
ExitClass(e) == e.isError /\ e.message \in {MsgProcessExited, MsgSpawnFailed}

\* Entry i of the history is an error thrown by runAssistant.
RunThrew(i) == effects[i].op = "throw" /\ effects[i].arg \in {"prompt", "query", "store"}

\* Entry i lies in a run that was started with a resume hint: a stored
\* session was read and the fallback has not replaced it yet.
Resumed(i) ==
  /\ \E j \in 1..(i - 1) : effects[j].op = "readState" /\ effects[j].arg # ""
  /\ \A j \in 1..(i - 1) : effects[j].op # "clearState"

\* Entry i is followed, at once, by an entry of `next` or, at the end of the
\* history, by the handler standing at `at`.
Then(i, next, at) ==
  IF i = Len(effects) THEN tpc = at ELSE effects[i + 1] \in next

Threw(step) == {threw(step, e) : e \in TurnErrors}

\* C13: a fatal-class failure of a run started with a resume hint is
\* followed, in this order, by the replacement of the stored session with
\* empty state, the could-not-resume notice and one re-run without resume
\* hint (each step unless the step before it threw); a failure of the re-run
\* goes to the handler's catch, and no message gets more than two runs.
ResumeFallbackOnce ==
  /\ Len(runs) <= 2
  /\ Count(effect("clearState", "")) <= 1
  /\ Count(effect("post", "resumeNotice")) <= 1
  /\ \A i \in DOMAIN effects :
       /\ (RunThrew(i) /\ Resumed(i) /\ ExitClass(effects[i].error)) =>
            Then(i, {effect("clearState", "")} \cup Threw("clear"), "clear")
       /\ effects[i] = effect("clearState", "") =>
            /\ Then(i, {effect("post", "resumeNotice")} \cup Threw("notice"),
                    "notice")
            /\ i = Len(effects) => stored = ""
       /\ effects[i] = effect("post", "resumeNotice") =>
            /\ Then(i, {effect("post", "warnings"), effect("run", "")}
                         \cup Threw("prompt"), "prompt")
            /\ i = Len(effects) => hint = "" /\ phase = "fresh"
            /\ \A j \in DOMAIN effects :
                 (j > i /\ effects[j].op = "run") => effects[j].arg = ""
            /\ \A j \in DOMAIN effects :
                 (j > i /\ effects[j].op = "throw") =>
                   tpc \in {"catch", "finally", "done"} /\ ~success
  /\ Len(runs) = 2 =>
       /\ runs[1].hint # "" /\ runs[2].hint = ""
       /\ Count(effect("post", "resumeNotice")) = 1

\* C13, its case: the resumed run and the re-run both failed with the fatal
\* class, and the handler is over.
FreshRunFailedToo ==
  /\ tpc = "done"
  /\ Len(runs) = 2
  /\ runs[1].outcome = "raised" /\ runs[2].outcome = "raised"
  /\ ExitClass(caught)

\* C14: the fallback is taken for nothing else: the stored session is
\* replaced only right after a fatal-class error of a run that was started
\* with a resume hint, the could-not-resume notice is posted only right
\* after that replacement, and any other error of runAssistant goes straight
\* to the handler's catch, after which no run is started, the stored session
\* is not cleared and no could-not-resume notice is posted.
NoFallbackOtherwise ==
  /\ tpc \in {"clear", "notice"} => phase = "resumed" /\ hint # ""
  /\ \A i \in DOMAIN effects :
       /\ effects[i] = effect("clearState", "") =>
            /\ i > 1
            /\ RunThrew(i - 1) /\ Resumed(i - 1) /\ ExitClass(effects[i - 1].error)
       /\ effects[i] = effect("post", "resumeNotice") =>
            i > 1 /\ effects[i - 1] = effect("clearState", "")
       /\ (RunThrew(i) /\ ~(Resumed(i) /\ ExitClass(effects[i].error))) =>
            /\ Then(i, {effect("post", "failureNotice"),
                        effect("postFailed", "failureNotice")}, "catch")
            /\ i = Len(effects) => caught = effects[i].error
            /\ \A j \in DOMAIN effects :
                 j > i => /\ effects[j].op \notin {"run", "clearState", "setState"}
                          /\ effects[j] # effect("post", "resumeNotice")

\* C14, its case: a run started with a resume hint threw a value that is no
\* Error, though its text tells of a process exit; the turn is over and the
\* stored session is still there.
ResumedRunFailedOtherwise ==
  /\ tpc = "done"
  /\ stored # ""
  /\ \E i \in DOMAIN effects :
       RunThrew(i) /\ Resumed(i) /\ effects[i].arg = "query"
       /\ ~effects[i].error.isError

\* The fallback was taken and nothing threw after the could-not-resume
\* notice: the fresh-session run succeeded, and the handler is over.
FreshRunSucceeded ==
  /\ tpc = "done"
  /\ \E i \in DOMAIN effects :
       /\ effects[i] = effect("post", "resumeNotice")
       /\ \A j \in DOMAIN effects : j > i => effects[j].op # "throw"

\* C15: when the resumed run failed with the fatal class and the fresh run
\* succeeded, the turn is a success: completion is marked, no generic
\* failure notice is posted, the indicator is not merely cleared, and the
\* stored session is what the fresh run yielded (nothing, if it yielded no
\* session id), not the session the failed run resumed.
FreshRunEndsInSuccess ==
  FreshRunSucceeded =>
    /\ success
    /\ Count(effect("markComplete", "")) = 1
    /\ Count(effect("clearIndicator", "")) = 0
    /\ FailureNotices = 0
    /\ runs # <<>>
    /\ Last(runs).hint = "" /\ Last(runs).outcome = "returned"
    /\ stored = (IF Last(runs).inits = <<>> THEN "" ELSE Last(Last(runs).inits))

\* C15, its case: the fresh run succeeded and yielded a session id other
\* than the one the failed run resumed.
FreshSessionStored ==
  /\ FreshRunSucceeded
  /\ Len(runs) = 2
  /\ runs[1].outcome = "raised"
  /\ stored # ""
  /\ stored # runs[1].hint

\* The run during which entry i of the history was made: its index in runs.
RunIndex(i) == Cardinality({j \in 1..i : effects[j].op = "run"})

\* C16: the stored session id is written exactly for the runs that returned
\* without error and yielded a session id, and the value written is that
\* run's session id; apart from the replacement made by the resume fallback,
\* nothing else changes the stored session.
SessionStoredIffYielded ==
  /\ [](/\ \A i \in DOMAIN effects :
             effects[i].op = "setState" =>
               LET k == RunIndex(i)
               IN  /\ k >= 1
                   /\ runs[k].outcome = "returned"
                   /\ runs[k].inits # <<>>
                   /\ effects[i].arg = Last(runs[k].inits)
        /\ \A k \in DOMAIN runs :
             (variant = "bot" /\ runs[k].outcome = "returned"
                /\ runs[k].inits # <<>>) =>
               \/ k = Len(runs) /\ tpc = "store"
               \/ \E i \in DOMAIN effects :
                    /\ RunIndex(i) = k
                    /\ effects[i] \in {effect("setState", Last(runs[k].inits))}
                                        \cup Threw("store"))
  /\ [][stored' # stored =>
          \/ /\ tpc = "store"
             /\ Last(runs).outcome = "returned"
             /\ stored' = Last(Last(runs).inits)
             /\ effects' = Append(effects, effect("setState", stored'))
          \/ tpc = "clear" /\ stored' = ""]_vars

\* C16, its case: a run yielded two session ids and returned; the later one
\* has been stored over a different stored id.
LastSessionIdStored ==
  /\ tpc = "done"
  /\ success
  /\ Len(runs) = 1
  /\ Len(runs[1].inits) = 2
  /\ runs[1].inits[1] # runs[1].inits[2]
  /\ runs[1].hint = runs[1].inits[1]
  /\ stored = runs[1].inits[2]

\* C17: the first run of a follow-up turn is started with the stored session
\* id as its resume hint, read from the thread's state before the run, and
\* with no hint when nothing is stored.
ResumeHintIsStoredSession ==
  [][(handler = "subscribed" /\ phase # "fresh" /\ runs = <<>> /\ runs' # <<>>) =>
       /\ runs'[1].hint = stored
       /\ Last(effects') = effect("run", stored)
       /\ variant = "bot" => Count(effect("readState", stored)) = 1]_vars

\* C17, its case: a follow-up turn whose first run was started with the
\* stored session id as hint.
FirstRunResumes ==
  /\ handler = "subscribed"
  /\ Len(runs) = 1
  /\ runs[1].hint \in SessionIds
  /\ runs[1].outcome = "running"

\* C20: every chunk splitLongText returns is at most TELEGRAM_MAX_LENGTH
\* characters long, whatever the text.
ChunksWithinMax ==
  \A i \in DOMAIN splitOutput : Len(splitOutput[i]) <= TELEGRAM_MAX_LENGTH

\* C20, its case: a text longer than the maximum, split into several
\* chunks of which the first is as long as the maximum allows.
SplitAtTheMaximum ==
  /\ Len(splitInput) > TELEGRAM_MAX_LENGTH
  /\ Len(splitOutput) >= 2
  /\ Len(splitOutput[1]) = TELEGRAM_MAX_LENGTH

\* Adjacent entries of the sequence have different roles.
Alternating(turns) ==
  \A i \in 1..(Len(turns) - 1) : turns[i].role # turns[i + 1].role

\* C18: the sequence convertThreadHistory returns has no two adjacent turns
\* of the same role, whatever the thread's messages are.
HistoryAlternates ==
  /\ Alternating(merged)
  /\ hpc = "returned" =>
       merged = convertThreadHistory(allMessages, currentMessageId)

\* C18, its case: the loop collected two adjacent assistant entries and two
\* adjacent user entries, and the merged sequence has both roles.
MergedBothRoles ==
  /\ hpc = "returned"
  /\ Len(merged) >= 2
  /\ \E i \in 1..(Len(history) - 1) :
       history[i].role = "assistant" /\ history[i + 1].role = "assistant"
  /\ \E i \in 1..(Len(history) - 1) :
       history[i].role = "user" /\ history[i + 1].role = "user"

\* The stored messages but the one with the given id.
without(id) == SelectSeq(allMessages, LAMBDA m : m.id # id)

\* The stored message with the given id contributes to the returned
\* sequence: the sequence is another one when the message is not stored.
Contributes(id) ==
  convertThreadHistory(without(id), currentMessageId) # merged

\* The test of line 320: the message has text or attachments.
NonEmpty(m) == trim(m.text) # <<>> \/ m.attachments # <<>>

\* The message has text, or an attachment that can be read, or is another
\* participant's and has attachments.
HasContent(m) ==
  \/ trim(m.text) # <<>>
  \/ extractMediaParts(m) # <<>>
  \/ ~m.author.isMe /\ m.attachments # <<>>

\* C19 as stated: the triggering message contributes nothing to the returned
\* history and every other non-empty stored message contributes.
EveryOtherNonEmptyContributes ==
  hpc = "returned" =>
    /\ ~Contributes(currentMessageId)
    /\ \A i \in DOMAIN allMessages :
         (i # currentMessageId /\ NonEmpty(allMessages[i])) => Contributes(i)

\* C19: the triggering message contributes nothing to the returned history,
\* wherever it sits; another stored message contributes exactly when it has
\* text, or an attachment that can be read, or is another participant's
\* and has attachments.
EveryOtherWithContentContributes ==
  hpc = "returned" =>
    /\ ~Contributes(currentMessageId)
    /\ \A i \in DOMAIN allMessages :
         i # currentMessageId =>
           (Contributes(i) <=> HasContent(allMessages[i]))

\* C19, its case: the triggering message sits in the middle of the log and
\* has text, and the bot's own message after it has no text and one
\* attachment that cannot be read.
TriggerInTheMiddle ==
  /\ hpc = "returned"
  /\ Len(allMessages) = 3
  /\ currentMessageId = 2
  /\ trim(allMessages[2].text) # <<>>
  /\ HasContent(allMessages[1])
  /\ allMessages[3].author.isMe
  /\ NonEmpty(allMessages[3])
  /\ ~HasContent(allMessages[3])

\* The characters of the text that are no whitespace, in order.
NonSpace(t) == SelectSeq(t, LAMBDA c : c \notin Spaces)

RECURSIVE Concat(_)
Concat(ts) == IF ts = <<>> THEN <<>> ELSE Head(ts) \o Concat(Tail(ts))

\* The text is its chunks in order with nothing but whitespace between two
\* chunks and after the last one.
RECURSIVE Rebuilds(_, _)
Rebuilds(t, cs) ==
  IF cs = <<>> THEN IsBlank(t)
  ELSE \E k \in 0..(Len(t) - Len(Head(cs))) :
         /\ IsBlank(SubSeq(t, 1, k))
         /\ SubSeq(t, k + 1, k + Len(Head(cs))) = Head(cs)
         /\ Rebuilds(SubSeq(t, k + Len(Head(cs)) + 1, Len(t)), Tail(cs))

\* C21: the chunks splitLongText returns hold, in order, exactly the
\* characters of the text that are no whitespace; what splitting removes is
\* whitespace between two chunks or after the last one.
ChunksKeepNonWhitespace ==
  splitOutput # <<>> =>
    /\ NonSpace(Concat(splitOutput)) = NonSpace(splitInput)
    /\ Rebuilds(splitInput, splitOutput)

\* C21, its case: a text of both letters cut at a line break, where the
\* split removed whitespace.
SplitRemovedWhitespace ==
  /\ Len(splitOutput) >= 2
  /\ Len(Concat(splitOutput)) < Len(splitInput)
  /\ "a" \in {splitInput[i] : i \in DOMAIN splitInput}
  /\ "b" \in {splitInput[i] : i \in DOMAIN splitInput}

\* C22: a text no longer than TELEGRAM_MAX_LENGTH is returned as the one
\* chunk, unchanged.
ShortTextUnchanged ==
  (splitOutput # <<>> /\ Len(splitInput) <= TELEGRAM_MAX_LENGTH) =>
    splitOutput = <<splitInput>>

\* C22, its case: a short text that starts and ends with whitespace, and a
\* blank one, came back as they were.
ShortTextWithWhitespace ==
  /\ splitOutput = <<splitInput>>
  /\ Len(splitInput) = TELEGRAM_MAX_LENGTH
  /\ splitInput[1] \in Spaces
  /\ Last(splitInput) \in Spaces
  /\ ~IsBlank(splitInput)

\* C23: splitLongText terminates on every text: each loop iteration
\* splits at an offset greater than 0 and leaves a shorter remainder, and
\* the function returns what the recursive definition computes.
SplitTerminates ==
  /\ <>(spc = "returned")
  /\ [][spc' = "loop" =>
          /\ lastSplitAt' > 0
          /\ Len(splitRemaining') < Len(splitRemaining)]_vars
  /\ [](spc = "returned" => splitOutput = splitLongText(splitInput))

\* C23, its case: the loop ran twice, the last time splitting at a line
\* break below the maximum, and the function returned.
LoopRanTwice ==
  /\ spc = "returned"
  /\ Len(splitOutput) >= 3
  /\ lastSplitAt > 0
  /\ lastSplitAt < TELEGRAM_MAX_LENGTH

\* The list a check uses, as the README states it: the list of the
\* platform when that list is not empty, the global list otherwise.
ListInUse(platformLists, global) ==
  IF access.adapterName \in DOMAIN platformLists
     /\ platformLists[access.adapterName] # {}
  THEN platformLists[access.adapterName] ELSE global

UserCheckPasses ==
  LET list == ListInUse([slack |-> allowlists.userIdsSlack,
                         telegram |-> allowlists.userIdsTelegram],
                        allowlists.userIds)
  IN  list = {} \/ access.userId \in list

ChatCheckPasses ==
  LET list == ListInUse([slack |-> allowlists.chatIdsSlack,
                         telegram |-> allowlists.chatIdsTelegram],
                        allowlists.chatIds)
  IN  list = {} \/ access.channelId \in list

\* The handler subscribed, posted, ran the agent or set an indicator.
Handled == effects # <<>> \/ runs # <<>> \/ tpc \notin {"receive", "ignored"}

\* C24: a message is handled only if the user check and the chat check both
\* pass, each on the platform's list when it is not empty and on the global
\* list otherwise, an empty list passing every id; a denied message causes
\* no post, no subscription and no agent run.
DeniedMessageNotHandled ==
  /\ [](/\ inbound.allowed = (UserCheckPasses /\ ChatCheckPasses)
        /\ Handled => UserCheckPasses /\ ChatCheckPasses)
  /\ [][~(UserCheckPasses /\ ChatCheckPasses) =>
          /\ tpc' \in {"receive", "ignored"}
          /\ effects' = <<>>
          /\ runs' = <<>>]_vars

\* C24, its case: a message denied by the platform's user list although the
\* global list holds its author, ignored by the handler.
DeniedByPlatformList ==
  /\ tpc = "ignored"
  /\ ~UserCheckPasses
  /\ ChatCheckPasses
  /\ access.userId \in allowlists.userIds
  /\ ~inbound.isMe
  /\ ~inbound.trigger

\* C25: after every digest cycle the seen-guid set holds at most DEDUP_CAP
\* entries, and what a cycle removes are the entries inserted first: the
\* removed entries followed by the kept ones are the old set followed by
\* the new guids.
SeenGuidsCapped ==
  /\ [](/\ Len(seenGuids) <= DEDUP_CAP
        /\ \A i, j \in DOMAIN seenGuids : i # j => seenGuids[i] # seenGuids[j])
  /\ [][seenGuids' # seenGuids =>
          /\ IsPrefix(seenGuids, evicted' \o seenGuids')
          /\ evicted' # <<>> => Len(seenGuids') = DEDUP_CAP
          /\ \A i, j \in DOMAIN (evicted' \o seenGuids') :
               i # j => (evicted' \o seenGuids')[i] # (evicted' \o seenGuids')[j]
     ]_vars

\* C25, its case: a cycle on a full set removed its two oldest entries and
\* kept the youngest.
OldestEvicted ==
  /\ dpc.curating > 0
  /\ Len(seenGuids) = DEDUP_CAP
  /\ Len(evicted) = 2

\* The posts whose consumer is suspended inside the lazy sequence.
Suspended == {p \in DOMAIN relays : relays[p].cons = "suspended"}

\* C26: on a stream in which no TextStart arrives while a segment is open,
\* whenever a consumer is suspended inside the lazy sequence the queue is
\* empty, done is unset and the wake slot holds that consumer's resolver; at
\* most one consumer is suspended; the producer never waits in close for a
\* post whose consumer is suspended; and a push or a close made while a
\* consumer is suspended wakes it.
NoLostWakeUp ==
  /\ [](~Overlapped =>
          /\ \A p \in Suspended :
               state.chunks = <<>> /\ ~state.done /\ state.resolve = p
          /\ Cardinality(Suspended) <= 1
          /\ pc \in {"close", "closeEnd"} => currentPost \notin Suspended)
  /\ [][~Overlapped' =>
          \A p \in Suspended :
            (state'.chunks # state.chunks \/ state'.done # state.done) =>
              relays'[p].cons = "woken"]_vars

\* C26, its case: a push woke the suspended consumer of the open segment,
\* and the fragment is still in the queue.
PushWokeConsumer ==
  /\ ~Overlapped
  /\ openSeg # 0
  /\ state.chunks # <<>>
  /\ currentPost # 0
  /\ relays[currentPost].cons = "woken"

\* The run was abandoned on a live platform while a segment was open: the
\* agent's stream raised, or the delivery of a status notice did.
AbandonedMidSegment ==
  /\ live
  /\ pc = "failed"
  /\ thrown.src \in {"stream", "call"}
  /\ openSeg # 0

\* C27: when a run is abandoned mid-segment on a live platform the relay is
\* not closed: done stays unset and the segment's post is never completed
\* by the dispatcher (it stays in flight unless the platform fails it); the
\* step in which the error leaves the dispatcher touches neither the relay
\* nor the post, and a consumer suspended after it stays suspended.
AbandonLeavesRelayOpen ==
  /\ [](AbandonedMidSegment =>
          /\ ~state.done
          /\ currentPost # 0
          /\ ~relays[currentPost].closed
          /\ relays[currentPost].status \in {"flight", "err"}
          /\ relays[currentPost].cons # "finished")
  /\ [][AbandonedMidSegment' =>
          IF AbandonedMidSegment
          THEN \A p \in Suspended : relays'[p].cons = "suspended"
          ELSE relayVars' = relayVars]_vars

\* C27, its case: the delivery of a status notice raised while a segment
\* was open, and the segment's post is in flight with its consumer
\* suspended after it took a fragment.
PostLeftPending ==
  /\ AbandonedMidSegment
  /\ thrown.src = "call"
  /\ relays[currentPost].status = "flight"
  /\ currentPost \in Suspended
  /\ relays[currentPost].recv # <<>>

\* C28: the message list handleQuery hands to the agent (the history, the
\* optional prelude turn, the triggering user turn) has no two adjacent
\* turns of the same role.
QueryMessagesAlternate == Alternating(queryMessages)

\* C29: text that arrives while no segment is open never reaches the
\* platform: every text post belongs to a segment and carries a chunk of
\* that segment's own text, every relay post was pushed its segment's text
\* and nothing else, and an event that arrives while no segment is open and
\* opens none begins no text post and changes neither the relay nor the
\* buffered text.
StrayTextIsDropped ==
  /\ [](\A i \in DOMAIN calls :
          calls[i].kind = "text" =>
            /\ calls[i].seg # 0
            /\ \E k \in DOMAIN partsOf(segs[calls[i].seg].text) :
                 calls[i].text = partsOf(segs[calls[i].seg].text)[k])
  /\ [](\A p \in DOMAIN relays :
          \E s \in DOMAIN segs :
            segs[s].start = relays[p].ev /\ Concat(relays[p].pushed) = segs[s].text)
  /\ [][pc = "loop" /\ nEvents' = nEvents + 1 /\ openSeg = 0 /\ openSeg' = 0 =>
          /\ \A i \in DOMAIN calls' : i > Len(calls) => calls'[i].kind # "text"
          /\ relayVars' = relayVars
          /\ currentTextBlock' = currentTextBlock
          /\ inTextBlock' = inTextBlock]_vars

\* The segment state and the text buffered or queued for the open segment
\* are what they were.
SegmentUntouched ==
  /\ openSeg' = openSeg
  /\ segs' = segs
  /\ inTextBlock' = inTextBlock
  /\ currentTextBlock' = currentTextBlock
  /\ relayVars' = relayVars

\* C30: a ToolInvocationStart whose tool name is in TOOL_STATUS begins one
\* postWithRetry call for its status notice, and that is the only notice of
\* the event; a ToolInvocationStart with another name, a ToolResult and a
\* SessionInit begin no post; none of these events, nor the delivery of the
\* notice, changes the segment state or the text buffered or queued for
\* the open segment.
NonTextEventsPostOnlyNotices ==
  /\ [](\A i \in DOMAIN calls :
          calls[i].kind = "notice" =>
            /\ \E n \in DOMAIN TOOL_STATUS : calls[i].text = notice(TOOL_STATUS[n])
            /\ \A j \in DOMAIN calls :
                 calls[j].kind = "notice" /\ calls[j].ev = calls[i].ev => j = i)
  /\ [][\A toolName \in ToolNames :
          ToolInvocationStart(toolName) =>
            /\ SegmentUntouched
            /\ IF toolName \in DOMAIN TOOL_STATUS
               THEN /\ calls' = Append(calls,
                                       newCall(notice(TOOL_STATUS[toolName]),
                                               "notice", 0))
                    /\ pc' = "post"
                    /\ pwr' = "inflight"
               ELSE calls' = calls /\ pc' = "loop"]_vars
  /\ [][\A kind \in OtherEvents :
          NonTextEvent(kind) =>
            SegmentUntouched /\ calls' = calls /\ pc' = "loop"]_vars
  /\ [][cont = "loop"
          /\ (PostSucceeds \/ SleepDone \/ PostFails(DispatchErrors, MaxFailures))
          => SegmentUntouched]_vars

\* C30, its case: a status notice was delivered while a segment was open,
\* and the segment's text is still buffered (or was pushed to its relay)
\* whole.
NoticeInsideSegment ==
  /\ pc = "loop"
  /\ openSeg # 0
  /\ segs[openSeg].text # <<>>
  /\ \E i \in DOMAIN calls :
       /\ calls[i].kind = "notice"
       /\ calls[i].result = "ok"
       /\ calls[i].ev > segs[openSeg].start
  /\ IF live THEN Concat(relays[currentPost].pushed) = segs[openSeg].text
     ELSE currentTextBlock = segs[openSeg].text

\* The largest element of a non-empty set of integers.
MaxOf(S) == CHOOSE i \in S : \A j \in S : j <= i

\* The 0-based offsets at which pat occurs in s.
OffsetsOf(s, pat) ==
  {i \in 0..(Len(s) - Len(pat)) : SubSeq(s, i + 1, i + Len(pat)) = pat}

\* The offsets of a set that are at or beyond the midpoint of the maximum.
AtOrPastMidpoint(S) == {i \in S : 2 * i >= TELEGRAM_MAX_LENGTH}

\* C31: while the remainder is longer than the maximum, the split offset is
\* the offset of the last paragraph break of the leading slice if that is at
\* or beyond max/2, else the offset of the last line break if that is at or
\* beyond max/2, else the maximum; so when the slice has a paragraph break
\* at or beyond its midpoint the cut is at a paragraph break and the chunk
\* is the text before it.
SplitOffsetRule ==
  [][spc' = "loop" =>
       LET sl    == Slice(splitRemaining, 0, TELEGRAM_MAX_LENGTH)
           paras == OffsetsOf(sl, <<"\n", "\n">>)
           lines == OffsetsOf(sl, <<"\n">>)
       IN  /\ lastSplitAt' =
                IF AtOrPastMidpoint(paras) # {} THEN MaxOf(paras)
                ELSE IF AtOrPastMidpoint(lines) # {} THEN MaxOf(lines)
                ELSE TELEGRAM_MAX_LENGTH
           /\ AtOrPastMidpoint(paras) # {} =>
                /\ lastSplitAt' \in paras
                /\ Last(splitOutput') =
                     trimEnd(Slice(splitRemaining, 0, lastSplitAt'))
                /\ splitRemaining' =
                     trimStart(Slice(splitRemaining, lastSplitAt' + 2,
                                     Len(splitRemaining)))]_vars

\* C31, its case: the first iteration cut a text at a paragraph break that
\* lies at or beyond the midpoint and before the maximum.
CutAtParagraphBreak ==
  /\ spc = "loop"
  /\ Len(splitOutput) = 1
  /\ 2 * lastSplitAt >= TELEGRAM_MAX_LENGTH
  /\ lastSplitAt + 2 <= TELEGRAM_MAX_LENGTH
  /\ splitInput[lastSplitAt + 1] = "\n"
  /\ splitInput[lastSplitAt + 2] = "\n"
  /\ splitRemaining # <<>>

\* C32: for a text with non-blank content, no chunk splitLongText returns
\* is empty or made of whitespace only.
NoBlankChunk ==
  ~IsBlank(splitInput) =>
    \A i \in DOMAIN splitOutput : ~IsBlank(splitOutput[i])

\* C33: within one postWithRetry call the k-th retry starts when a sleep of
\* the k-th configured delay completes, and only then; a call sleeps only
\* after a retryable failure that is not its last attempt's, so not after a
\* success, a non-retryable failure or the final failed attempt; and while
\* the call sleeps the run takes no further event and begins no other post.
RetrySleepsItsDelay ==
  /\ [](\A i \in DOMAIN calls :
          /\ calls[i].slept = SubSeq(RETRY_DELAYS_MS, 1, calls[i].n - 1)
          /\ calls[i].result # "pending" =>
               Len(calls[i].slept) = Len(calls[i].outs) - 1)
  /\ [](pwr = "sleeping" =>
          /\ pc = "post"
          /\ Last(calls).result = "pending"
          /\ Last(Last(calls).outs) = "retryable"
          /\ Len(Last(calls).outs) <= Len(RETRY_DELAYS_MS)
          /\ Len(Last(calls).slept) = Len(Last(calls).outs) - 1)
  /\ [][\A i \in DOMAIN calls :
          calls'[i].n # calls[i].n =>
            /\ pwr = "sleeping" /\ pwr' = "inflight"
            /\ calls'[i].n = calls[i].n + 1
            /\ calls'[i].slept =
                 Append(calls[i].slept, RETRY_DELAYS_MS[calls[i].n])]_vars
  /\ [][pwr = "sleeping" =>
          /\ nEvents' = nEvents
          /\ Len(calls') = Len(calls)
          /\ Len(relays') = Len(relays)
          /\ pc' = pc
          /\ pwr' \in {"sleeping", "inflight"}]_vars

\* C33, its case: the call for a status notice posted inside an open
\* segment made its third retry, after sleeps of the three delays in order.
ThirdRetryAfterThreeSleeps ==
  /\ openSeg # 0
  /\ pwr = "inflight"
  /\ Last(calls).kind = "notice"
  /\ Last(calls).n = Len(RETRY_DELAYS_MS) + 1
  /\ Last(calls).slept = RETRY_DELAYS_MS

\* s occurs in t as a run of adjacent elements.
IsInfix(s, t) ==
  \E i \in 0..(Len(t) - Len(s)) : SubSeq(t, i + 1, i + Len(s)) = s

\* The media parts of a stored message: one image part for each supported
\* attachment whose data can be read.
ReadableMedia(m) ==
  LET ok == SelectSeq(m.attachments,
                      LAMBDA a : a.mimeType = "image/png" /\ a.data # "")
  IN  [i \in DOMAIN ok |-> imagePart(ok[i].data)]

\* The self-authored stored messages, other than the triggering one, that
\* have readable media.
SelfWithMedia ==
  {k \in DOMAIN allMessages :
     /\ allMessages[k].author.isMe
     /\ allMessages[k].id # currentMessageId
     /\ ReadableMedia(allMessages[k]) # <<>>}

\* The synthetic user turn for a self-authored message.
SyntheticTurn(m) ==
  [role |-> "user",
   content |-> arr(<<textPart(FilePostedText)>> \o ReadableMedia(m))]

\* The number of history entries the messages before the k-th one pushed.
entriesBefore(k) ==
  Len(collect(SubSeq(allMessages, 1, k - 1), currentMessageId))

\* No assistant turn carries media, and a synthetic turn that a user turn
\* follows is in the merged output inside one user turn, followed there by
\* that turn's parts.
SyntheticTurnsMerge ==
  /\ \A i \in DOMAIN history :
       history[i].role = "assistant" => history[i].content.isString
  /\ \A i \in DOMAIN merged :
       merged[i].role = "assistant" => merged[i].content.isString
  /\ \A k \in SelfWithMedia :
       \A i \in 1..(Len(history) - 1) :
         (history[i] = SyntheticTurn(allMessages[k])
            /\ history[i + 1].role = "user") =>
           \E j \in DOMAIN merged :
             /\ merged[j].role = "user"
             /\ IsInfix(contentParts(history[i].content)
                          \o contentParts(history[i + 1].content),
                        contentParts(merged[j].content))

\* C34 as stated: every self-authored stored message with readable media
\* has, in the pre-merge history, its assistant turn immediately followed
\* by the synthetic user turn; no assistant turn carries media; the
\* synthetic turn is merged with a user turn that follows it.
SyntheticTurnFollowsAssistantTurn ==
  hpc = "returned" =>
    /\ \A k \in SelfWithMedia :
         LET m == allMessages[k]
             b == entriesBefore(k)
         IN  /\ Len(history) >= b + 2
             /\ history[b + 1] =
                  [role |-> "assistant", content |-> str(trim(m.text))]
             /\ history[b + 2] = SyntheticTurn(m)
    /\ SyntheticTurnsMerge

\* C34, amended: the synthetic user turn follows the message's assistant
\* turn when the message has text; a self-authored message whose text is
\* blank has no assistant turn and yields the synthetic turn alone.
SyntheticTurnFollowsAssistantTurnIfAny ==
  hpc = "returned" =>
    /\ \A k \in SelfWithMedia :
         LET m == allMessages[k]
             b == entriesBefore(k)
         IN  IF trim(m.text) # <<>>
             THEN /\ Len(history) >= b + 2
                  /\ history[b + 1] =
                       [role |-> "assistant", content |-> str(trim(m.text))]
                  /\ history[b + 2] = SyntheticTurn(m)
                  /\ entriesBefore(k + 1) = b + 2
             ELSE /\ Len(history) >= b + 1
                  /\ history[b + 1] = SyntheticTurn(m)
                  /\ entriesBefore(k + 1) = b + 1
    /\ SyntheticTurnsMerge

\* C34, its case: a self-authored message with text and a readable image,
\* directly followed by another participant's message; the merged output
\* has fewer turns than the history.
SelfMediaThenUserMessage ==
  /\ hpc = "returned"
  /\ currentMessageId = MaxLog + 1
  /\ \E k \in SelfWithMedia :
       /\ trim(allMessages[k].text) # <<>>
       /\ k + 1 \in DOMAIN allMessages
       /\ ~allMessages[k + 1].author.isMe
  /\ Len(merged) < Len(history)

\* The maximal runs of consecutive turns of one role, oldest first.
RECURSIVE RunsOf(_)
RunsOf(h) ==
  IF h = <<>> THEN <<>>
  ELSE LET later == RunsOf(Tail(h))
       IN  IF later # <<>> /\ Head(later)[1].role = Head(h).role
           THEN <<(<<Head(h)>> \o Head(later))>> \o Tail(later)
           ELSE <<(<<Head(h)>>)>> \o later

\* The parts of the turns of a run, in order; string content is one text part.
RECURSIVE RunParts(_)
RunParts(run) ==
  IF run = <<>> THEN <<>>
  ELSE (IF Head(run).content.isString
        THEN <<[type |-> "text", text |-> Head(run).content.text, data |-> ""]>>
        ELSE Head(run).content.parts) \o RunParts(Tail(run))

\* The texts of the turns of a run, joined by a blank line.
RECURSIVE RunText(_)
RunText(run) ==
  IF Len(run) = 1 THEN Head(run).content.text
  ELSE Head(run).content.text \o <<"\n", "\n">> \o RunText(Tail(run))

\* The parts of all user turns of a history, in order.
FlatUserParts(h) ==
  RunParts(SelectSeq(h, LAMBDA e : e.role = "user"))

\* C35: the merged output has one turn per run of the pre-merge history, in
\* the same order: a run of one turn is kept as it is, a user run becomes a
\* user turn whose parts are the run's parts in order, an assistant run
\* becomes an assistant turn whose text is the run's texts joined by a blank
\* line; the parts of the user turns are the same sequence before and after.
MergeKeepsEverythingInOrder ==
  hpc = "returned" =>
    LET roleRuns == RunsOf(history)
    IN  /\ Len(merged) = Len(roleRuns)
        /\ \A r \in DOMAIN roleRuns :
             /\ merged[r].role = roleRuns[r][1].role
             /\ Len(roleRuns[r]) = 1 => merged[r] = roleRuns[r][1]
             /\ (Len(roleRuns[r]) > 1 /\ roleRuns[r][1].role = "user") =>
                  merged[r].content =
                    [isString |-> FALSE, text |-> <<>>,
                     parts |-> RunParts(roleRuns[r])]
             /\ (Len(roleRuns[r]) > 1 /\ roleRuns[r][1].role = "assistant") =>
                  merged[r].content =
                    [isString |-> TRUE, text |-> RunText(roleRuns[r]),
                     parts |-> <<>>]
        /\ FlatUserParts(merged) = FlatUserParts(history)

\* C35, its case: the history has two assistant turns in a row and two user
\* turns in a row, and both roleRuns were merged.
BothKindsOfRunMerged ==
  /\ hpc = "returned"
  /\ \E i \in 1..(Len(history) - 1) :
       history[i].role = "assistant" /\ history[i + 1].role = "assistant"
  /\ \E i \in 1..(Len(history) - 1) :
       history[i].role = "user" /\ history[i + 1].role = "user"
  /\ Len(merged) = Len(history) - 2

\* An attachment the assembler takes for a candidate.
SupportedAttachment(a) ==
  a.mimeType \in {"image/png", "application/pdf", "text/plain"}
    \/ a.type = "image"

\* The attachments of a message that are considered: the first four
\* supported ones.
Considered(m) ==
  LET all == SelectSeq(m.attachments, SupportedAttachment)
  IN  SubSeq(all, 1, IF Len(all) < 4 THEN Len(all) ELSE 4)

\* An attachment sent as an image rather than as a file.
SentAsImage(a) ==
  a.mimeType = "image/png"
    \/ (a.mimeType \notin {"application/pdf", "text/plain"}
          /\ a.urlMime = "image/png")

SentAsFile(a) == a.mimeType \in {"application/pdf", "text/plain"}

\* A considered attachment that is included: its read neither throws nor
\* returns nothing, and it is an image of at most 5 MB or a file of at
\* most 10 MB.
Included(a) ==
  /\ ~a.throws
  /\ a.data # ""
  /\ \/ SentAsImage(a) /\ a.length <= 5 * 1024 * 1024
     \/ SentAsFile(a) /\ a.length <= 10 * 1024 * 1024

\* The media parts a message is expected to contribute.
ExpectedMedia(m) ==
  LET inc == SelectSeq(Considered(m), Included)
  IN  [i \in DOMAIN inc |->
         [type |-> IF SentAsImage(inc[i]) THEN "image" ELSE "file",
          text |-> <<>>, data |-> inc[i].data]]

\* The media parts of all turns of a history, in order.
MediaIn(h) == SelectSeq(RunParts(h), LAMBDA part : part.type # "text")

\* C36: the media parts of the assembled history are those of the included
\* attachments among the first four supported ones, in order: there are at
\* most four, none comes from an image above 5 MB or a file above 10 MB,
\* from a read that returned nothing or from a read that threw; the message
\* yields its turn with exactly its text and these parts.
OnlyReadableMediaWithinLimits ==
  (hpc = "returned" /\ Len(allMessages) = 1 /\ currentMessageId = 2) =>
    LET m     == allMessages[1]
        media == ExpectedMedia(m)
    IN  /\ MediaIn(history) = media
        /\ MediaIn(merged) = media
        /\ Len(MediaIn(history)) <= 4
        /\ \A i \in DOMAIN m.attachments :
             LET a == m.attachments[i]
             IN  (\/ a.throws
                  \/ a.data = ""
                  \/ SentAsImage(a) /\ a.length > 5 * 1024 * 1024
                  \/ SentAsFile(a) /\ a.length > 10 * 1024 * 1024
                  \/ ~SupportedAttachment(a)) =>
                   \A j \in DOMAIN MediaIn(history) :
                     MediaIn(history)[j].data # a.data
        /\ trim(m.text) # <<>> =>
             IF m.author.isMe
             THEN history =
                    <<[role |-> "assistant", content |-> str(trim(m.text))]>>
                    \o (IF media = <<>> THEN <<>>
                        ELSE <<[role |-> "user",
                                content |->
                                  arr(<<textPart(FilePostedText)>> \o media)]>>)
             ELSE history =
                    <<[role |-> "user",
                       content |->
                         IF media = <<>> THEN str(trim(m.text))
                         ELSE arr(<<textPart(trim(m.text))>> \o media)]>>

\* C36, its case: a message with more than four supported attachments; among
\* the first four one read throws, one returns nothing and one image is too
\* large; the fifth could be included but is beyond the cap; the message
\* still contributes a media part.
SkippedAttachmentsLeaveTheRest ==
  /\ hpc = "returned"
  /\ Len(allMessages) = 1
  /\ currentMessageId = 2
  /\ LET m   == allMessages[1]
         all == SelectSeq(m.attachments, SupportedAttachment)
     IN  /\ Len(all) > 4
         /\ \E i \in 1..4 : all[i].throws
         /\ \E i \in 1..4 : ~all[i].throws /\ all[i].data = ""
         /\ \E i \in 1..4 : SentAsImage(all[i])
                              /\ all[i].length > MAX_INBOUND_IMAGE_BYTES
         /\ Included(all[5])
         /\ Len(MediaIn(history)) = 1

\* The attachments of the triggering message that the prompt builder takes
\* for candidates: images for the bot variant, supported types for rina.
TriggerCandidates ==
  SelectSeq(promptMessage.attachments,
            LAMBDA a : IF variant = "bot" THEN a.type = "image"
                       ELSE SupportedAttachment(a))

\* A candidate that is sent to the model when it is within the cap.
TriggerIncluded(a) ==
  /\ ~a.throws
  /\ a.data # ""
  /\ IF variant = "bot" THEN a.length <= 5 * 1024 * 1024 ELSE Included(a)

\* The positions within the cap whose candidate is skipped.
SkippedWithinCap ==
  {i \in DOMAIN TriggerCandidates :
     i <= 4 /\ ~TriggerIncluded(TriggerCandidates[i])}

\* The candidates beyond the cap.
BeyondCap == {i \in DOMAIN TriggerCandidates : i > 4}

\* The lines of a text.
RECURSIVE LinesOf(_)
LinesOf(t) ==
  IF \A i \in DOMAIN t : t[i] # "\n" THEN <<t>>
  ELSE LET k == CHOOSE i \in DOMAIN t :
                  t[i] = "\n" /\ \A j \in 1..(i - 1) : t[j] # "\n"
       IN  <<SubSeq(t, 1, k - 1)>> \o LinesOf(SubSeq(t, k + 1, Len(t)))

\* Once handleQuery is called, a non-empty warning list has been posted as
\* one notice whose lines are the warnings, each after "> ", and an empty
\* list has posted nothing.
WarningsPostedBeforeRun ==
  /\ ppc = "post" => promptResult.warnings # <<>> /\ promptPosts = <<>>
  /\ ppc = "query" =>
       IF promptResult.warnings = <<>> THEN promptPosts = <<>>
       ELSE /\ Len(promptPosts) = 1
            /\ LinesOf(promptPosts[1]) =
                 [i \in DOMAIN promptResult.warnings |->
                    <<">", " ">> \o promptResult.warnings[i]]

\* C37 as stated: every skipped attachment of the triggering message,
\* unreadable, oversized or beyond the cap, adds an entry to the warning
\* list; a non-empty list is posted as one notice of "> " lines before the
\* agent run.
EverySkipAddsAWarning ==
  /\ ppc \in {"post", "query"} =>
       Len(promptResult.warnings) =
         Cardinality(SkippedWithinCap) + Cardinality(BeyondCap)
  /\ WarningsPostedBeforeRun

\* C37, amended: every candidate within the cap that is skipped adds its
\* own entry, naming its position, in order; the candidates beyond the cap
\* add one entry together, the last one, however many they are; a non-empty
\* list is posted as one notice of "> " lines before the agent run.
SkipsWithinCapWarnEachAndCapOnce ==
  /\ ppc \in {"post", "query"} =>
       LET ws   == promptResult.warnings
           own  == Cardinality(SkippedWithinCap)
       IN  /\ Len(ws) = own + (IF BeyondCap # {} THEN 1 ELSE 0)
           /\ \A k \in 1..own :
                \E i \in SkippedWithinCap :
                  /\ Cardinality({j \in SkippedWithinCap : j <= i}) = k
                  /\ ws[k][2] = Ordinals[i]
                  /\ ws[k][1] \in {"r", "l", "p"}
           /\ BeyondCap # {} => ws[Len(ws)] = <<"o", "4">>
  /\ WarningsPostedBeforeRun

\* C37, its case: six candidates, three of the first four skipped (one read
\* throws, one returns nothing, one image is too large), and the run has
\* started after a notice of four lines.
FourWarningsThenRun ==
  /\ ppc = "query"
  /\ Len(TriggerCandidates) = 6
  /\ Cardinality(SkippedWithinCap) = 3
  /\ \E i \in SkippedWithinCap : TriggerCandidates[i].throws
  /\ \E i \in SkippedWithinCap :
       ~TriggerCandidates[i].throws /\ TriggerCandidates[i].data = ""
  /\ \E i \in SkippedWithinCap :
       TriggerCandidates[i].length > MAX_INBOUND_IMAGE_BYTES
  /\ Len(promptPosts) = 1
  /\ Len(LinesOf(promptPosts[1])) = 4
  /\ ~promptResult.content.isString

\* C38: while one inbound message is handled, the attachment-warning notice
\* is posted at most once, the run after a resume fallback included.
WarningNoticeAtMostOnce ==
  Cardinality({i \in DOMAIN effects :
                 effects[i].op = "post" /\ effects[i].arg = "warnings"}) <= 1

\* C39: two runs of one thread are not serialized; whatever the
\* interleaving, the stored session id is the one written last, so that
\* when both runs stored a session id, only that of the run that wrote last
\* is left; a run's resume hint is the stored value it read, which the
\* other run may have read as well.
LastWriterWins ==
  /\ raceWrites # <<>> => stored = raceWrites[Len(raceWrites)].id
  /\ \A r \in Runs :
       racePc[r] = "store" => raceSession[r] \in SessionIds
  /\ \A r \in Runs :
       raceHint[r] # "" => racePc[r] # "readState"

\* C39, its case: both runs read the same stored session id as resume hint
\* before either wrote, both stored a session id of their own, and the
\* stored id is that of the second writer, not that of the first.
BothResumedSameSessionOneOverwritten ==
  /\ \A r \in Runs : racePc[r] = "done"
  /\ raceHint[1] # ""
  /\ raceHint[1] = raceHint[2]
  /\ Len(raceWrites) = 2
  /\ raceWrites[1].run # raceWrites[2].run
  /\ raceWrites[1].id # ""
  /\ raceWrites[2].id # ""
  /\ raceWrites[1].id # raceWrites[2].id
  /\ stored = raceWrites[2].id
  /\ stored # raceSession[raceWrites[1].run]

=============================================================================
